---- MODULE Spec2Model ----
(***************************************************************************)
(* Horton: change data capture over a PostgreSQL queue table.              *)
(*                                                                         *)
(* The model follows the latest revision of each source file:              *)
(*   EventQueue        src/unnamed/part_001                                *)
(*   Horton            src/src/index.ts                                    *)
(*   LivenessChecker   src/src/_liveness-checker.ts                        *)
(*   DatabaseClient    src/src/_database.ts                                *)
(*   TypedEventEmitter src/unnamed/part_006 (lines 105-195)                *)
(*                                                                         *)
(* PostgreSQL is modelled by what the code relies on: a table of committed *)
(* rows, row-level locks taken by SELECT ... FOR UPDATE and held until the *)
(* transaction ends, SKIP LOCKED, and NOTIFY messages that are delivered   *)
(* to the listening connection or lost.                                    *)
(***************************************************************************)
EXTENDS Integers, Sequences, FiniteSets, TLC

\* ---------------------------------------------------------------- bounds
MaxRows == 2            \* queue rows ever inserted
MaxTasks == 2           \* dequeue() calls ever started
MaxTime == 3            \* the clock stops advancing here
MaxPulses == 2          \* pulse() calls ever started
MaxStarts == 1          \* LivenessChecker.start() calls after the first
MaxTx == 2              \* DatabaseClient.transaction() calls observed
MaxCalls == 3           \* DatabaseClient connect() / disconnect() calls observed
MaxNameLen == 2         \* length of a logical name passed to prefixName()
MaxPrefixLen == 2       \* length of options.prefix
MaxNamed == 2           \* prefixName() calls observed
MaxInstalls == 1        \* createListenerTrigger() calls observed
MaxFirings == 1         \* listener trigger firings observed
MaxLifecycle == 3       \* Horton connect() / teardown() calls observed
MaxReconciliations == 2 \* firings of the reconciliation timer observed
MaxFields == 3          \* fields of a channel payload
MaxQueuedAt == 1        \* latest queuedAt a caller of queue() supplies
MaxQueueCalls == 4      \* EventQueue connect() / disconnect() / reconnect() calls
MaxGrace == 1           \* longest grace period or cooldown a caller passes
MaxInitializes == 2     \* EventQueue.initialize() calls
MaxTimerCalls == 2      \* EventQueue lifecycle calls next to start() and stop()
MaxAbsorbCalls == 1     \* EventQueue lifecycle calls before the writes begin
MaxRouted == 1          \* channel messages with an arbitrary payload observed

\* ------------------------------------------------------- program constants
ReconcileLimit == 1000  \* LIMIT 1000 of the reconciliation scan

ETriggerOperation == {"INSERT", "UPDATE", "DELETE"}
EInternalOperation == {"LIVENESS_PULSE"}
internalPseudoTableName == "horton-meta__internal"          \* prefixName(INTERNAL_PSEUDO_TABLE)

isTriggerOperation(str) == str \in ETriggerOperation
isInternalOperation(str) == str \in EInternalOperation

\* The host's configuration: tableListeners after formatTableListenerOptions.
tableListeners == { [tableName |-> "t", operations |-> {"INSERT", "UPDATE"}] }

\* User handlers registered on the Dispatcher (Horton.on), by event name.
Handlers == {"h1", "h2", "w1"}
\* What one invocation of a user handler does: return (or resolve), return a
\* promise that rejects, or throw synchronously.
Behaviours == {"ok", "reject", "throw"}
ListenerConfigs ==
  { [e \in {"t:INSERT", "t:UPDATE", "t:*"} |-> <<>>],
    [e \in {"t:INSERT", "t:UPDATE", "t:*"} |->
       CASE e = "t:INSERT" -> <<"h1", "h2">>
         [] e = "t:UPDATE" -> <<"h2">>
         [] OTHER -> <<"w1">>],
    [e \in {"t:INSERT", "t:UPDATE", "t:*"} |->
       CASE e = "t:INSERT" -> <<"h1">>
         [] e = "t:UPDATE" -> <<>>
         [] OTHER -> <<>>] }

VARIABLES
  now,          \* the clock (Date.now(), CLOCK_TIMESTAMP())
  rows,         \* every row ever inserted into the queue table; the id is the index
  queue,        \* ids of the rows in the committed queue table
  channel,      \* NOTIFY messages sent by the queue-table trigger, not yet received
  lost,         \* ids whose NOTIFY message was lost
  tasks,        \* every dequeue() call started, in start order
  reconciling,  \* is a reconciliation transaction open
  reconLocked,  \* the rows that transaction holds locked
  listeners,    \* the Dispatcher's user handlers: event name -> list of handlers
  notificationListenerClient,  \* EventQueue: is the LISTEN connection held
  reconciliationTimer,         \* EventQueue: is the referenced interval timer active
  pulseIntervalMs,             \* LivenessChecker option
  maxMissedPulses,             \* LivenessChecker option
  lastHeartbeat,               \* LivenessChecker.lastHeartbeat
  intervalTimer,               \* LivenessChecker: is the pulse timer active
  nextPulseAt,                 \* the time the pulse timer is next due
  pulses,                      \* every pulse() call started, in start order
  emitted,                     \* every event the LivenessChecker emitted, in order
  recoveries,                  \* the Dispatcher's reactions to unhealthy / dead, in start order
  poolEnded,                   \* DatabaseClient: has pool.end() been called
  leakedPulseTimers,           \* pulse timers still active that intervalTimer no longer references
  starts,                      \* LivenessChecker.start() calls after the first
  connectHeld,                 \* DatabaseClient: connections connect() took from the pool
  txs,                         \* every DatabaseClient.transaction() call observed step by step
  gwCalls,                     \* every DatabaseClient connect() / disconnect() call, in order
  prefix,                      \* DatabaseClient.prefix, a string as a sequence of characters
  named,                       \* every prefixName() call: its argument and what it returned
  listenerOptions,             \* options.tableListeners as the host supplied it
  installed,                   \* server: the listener triggers installed, by source table
  queueTable,                  \* server: does the queue table exist
  ddl,                         \* server: the schema statements executed, with their transaction
  installs,                    \* every createListenerTrigger() call and its outcome
  firings,                     \* every firing of a listener trigger and the row it wrote
  lifecycle,                   \* every Horton connect() / teardown() call, step by step, with
                               \* the tables that carried a trigger after its connect()
  eventQueueOptions,           \* options.eventQueueOptions as the host supplied it
  reconciliationIntervalMs,    \* EventQueue.reconciliationIntervalMs, a JavaScript value
  reconciliationArmedAt,       \* the time the reconciliation timer was armed or last fired
  reconciliationFirings,       \* every firing of the reconciliation timer
  routed,                      \* every channel message received: its payload and the events emitted
  queueCalls,                  \* every EventQueue connect() / disconnect() / reconnect() call
  timerHandle,                 \* the interval EventQueue.reconciliationTimer refers to, 0 when none
  liveTimers,                  \* the reconciliation intervals set and not cleared
  listenerConnections,         \* the listener connections checked out and not released
  queueColumns,                \* server: the queue table's columns (name, type, nullability)
  queueTrigger,                \* server: does the queue table carry its insert trigger
  initializes                  \* every EventQueue.initialize() call with its outcome

qvars == <<rows, queue, channel, lost, tasks, reconciling, reconLocked, listeners>>
lvars == <<notificationListenerClient, reconciliationTimer, pulseIntervalMs, maxMissedPulses,
           lastHeartbeat, intervalTimer, nextPulseAt, pulses, emitted, recoveries, poolEnded,
           leakedPulseTimers, starts>>
gvars == <<connectHeld, txs, gwCalls>>
nvars == <<prefix, named>>
svars == <<listenerOptions, installed, queueTable, ddl, installs, firings, lifecycle>>
cvars == <<queueCalls, timerHandle, liveTimers, listenerConnections>>
ivars == <<queueColumns, queueTrigger, initializes>>
evars == <<eventQueueOptions, reconciliationIntervalMs, reconciliationArmedAt,
           reconciliationFirings, routed, cvars, ivars>>
xvars == <<gvars, nvars, svars, evars>>
vars == <<now, qvars, lvars, xvars>>

\* ------------------------------------------------------------- helpers
Min(a, b) == IF a < b THEN a ELSE b

RowIds == 1..Len(rows)

\* A dequeue task holds its row's lock from its successful SELECT ... FOR UPDATE
\* until COMMIT or ROLLBACK.
HoldsLock(t) == t.pc \in {"callback", "delete", "commit", "rollback"}

LockedByDequeue(r) == \E i \in 1..Len(tasks) : tasks[i].rowId = r /\ HoldsLock(tasks[i])

LockedByDequeueOnly(r) == LockedByDequeue(r)

Locked(r) == LockedByDequeue(r) \/ r \in reconLocked

\* ------------------------------------------------- TypedEventEmitter.emitSync
\* Index of the first listener that throws synchronously, 0 when none does.
FirstThrow(ls, beh) ==
  IF \E i \in 1..Len(ls) : beh[ls[i]] = "throw"
  THEN CHOOSE i \in 1..Len(ls) :
         beh[ls[i]] = "throw" /\ \A j \in 1..(i - 1) : beh[ls[j]] # "throw"
  ELSE 0

\* listeners.map(listener => Promise.resolve(listener.apply(...)).catch(() => null)):
\* the listeners are called in order; a rejected promise is caught, but a
\* synchronous throw leaves listener.apply before Promise.resolve is reached,
\* ends the map and rejects the async function.
emitSync(eventName, payload, beh) ==
  LET ls == IF eventName \in DOMAIN listeners THEN listeners[eventName] ELSE <<>>
      k == FirstThrow(ls, beh)
      n == IF k = 0 THEN Len(ls) ELSE k
  IN [calls |-> [i \in 1..n |-> [handler |-> ls[i], event |-> eventName,
                                 payload |-> payload, outcome |-> beh[ls[i]]]],
      settled |-> IF k = 0 THEN "resolved" ELSE "rejected"]

\* Promise.all of the settled states of its members.
PromiseAll(settledSeq) ==
  IF \E i \in 1..Len(settledSeq) : settledSeq[i] = "rejected" THEN "rejected" ELSE "resolved"

DispatcherCallbackWithoutWildcard(row, beh) ==
  emitSync(row.tableName \o ":" \o row.operation, row, beh)

\* The callback Horton.handleQueueNotification passes to dequeue.
DispatcherCallback(row, beh) ==
  LET a == emitSync(row.tableName \o ":" \o row.operation, row, beh)
      b == emitSync(row.tableName \o ":*", row, beh)
  IN [calls |-> a.calls \o b.calls, settled |-> PromiseAll(<<a.settled, b.settled>>)]

\* The callback LivenessChecker.handleQueueNotification passes to dequeue: it
\* emits 'heartbeat' with { pulsedAt, pulseLag } and never fails; what it does to
\* lastHeartbeat is LivenessCallbackHeartbeat.
LivenessCallback(row) ==
  [calls |-> <<[handler |-> "heartbeat", event |-> "heartbeat",
                payload |-> [pulsedAt |-> row.queuedAt, pulseLag |-> now - row.queuedAt],
                outcome |-> "ok"]>>,
   settled |-> "resolved"]

LivenessCallbackHeartbeatUnguarded(row) == row.queuedAt

LivenessCallbackHeartbeat(row) ==
  IF row.queuedAt > lastHeartbeat THEN row.queuedAt ELSE lastHeartbeat

\* ------------------------------------------------------ EventQueue: events
\* The listeners registered on the EventQueue: the LivenessChecker's, from its
\* constructor, and one per configured (tableName, operation), from
\* Horton.createListeners.
eventQueueListeners(eventName) ==
  IF eventName = "internal:LIVENESS_PULSE" THEN <<"liveness">>
  ELSE IF \E l \in tableListeners : \E op \in l.operations :
            eventName = "queued:" \o l.tableName \o ":" \o op
       THEN <<"dispatcher">>
       ELSE <<>>

\* EventQueue.emitNotification: the event names it emits for a notification.
emitNotificationIgnoringTable(n) ==
  IF isTriggerOperation(n.operation) \/ isInternalOperation(n.operation)
    THEN <<"queued:" \o n.tableName \o ":" \o n.operation>> ELSE <<>>

emitNotification(n) ==
  (IF n.isInternal /\ isInternalOperation(n.operation)
     THEN <<"internal:" \o n.operation>> ELSE <<>>)
  \o
  (IF ~n.isInternal /\ isTriggerOperation(n.operation)
     THEN <<"queued:" \o n.tableName \o ":" \o n.operation>> ELSE <<>>)

Notification(r) ==
  [rowId |-> r, tableName |-> rows[r].tableName, operation |-> rows[r].operation,
   isInternal |-> (rows[r].tableName = internalPseudoTableName)]

\* A dequeue() call that has just been made: its transaction is about to
\* SELECT ... FOR UPDATE.
\* concurrentWith: the earlier calls for the same row still running at that time.
NewTask(rowId, handler) ==
  [rowId |-> rowId, handler |-> handler, pc |-> "begin", calls |-> <<>>,
   settled |-> "pending", deleted |-> FALSE, result |-> "pending",
   concurrentWith |-> { i \in 1..Len(tasks) : tasks[i].rowId = rowId /\ tasks[i].pc # "done" }]

RECURSIVE TasksFor(_, _)
TasksFor(rowId, hs) ==
  IF hs = <<>> THEN <<>>
  ELSE <<NewTask(rowId, Head(hs))>> \o TasksFor(rowId, Tail(hs))

RECURSIVE TasksForEvents(_, _)
TasksForEvents(rowId, es) ==
  IF es = <<>> THEN <<>>
  ELSE TasksFor(rowId, eventQueueListeners(Head(es))) \o TasksForEvents(rowId, Tail(es))

\* The dequeue() calls that emitting notification n starts: every listener of
\* every event emitted calls handleQueueNotification(rowId).
StartedBy(n) == TasksForEvents(n.rowId, emitNotification(n))

RECURSIVE StartedByAll(_)
StartedByAll(ns) ==
  IF ns = <<>> THEN <<>> ELSE StartedBy(Head(ns)) \o StartedByAll(Tail(ns))

\* ------------------------------------------------------ the queue table
\* A write on a watched table fires its listener trigger, which inserts a queue
\* row; the queue table's own trigger then sends NOTIFY with the row's id.
InsertRow ==
  /\ Len(rows) < MaxRows
  /\ \E l \in tableListeners : \E op \in l.operations :
       LET id == Len(rows) + 1 IN
       /\ rows' = Append(rows, [id |-> id, tableName |-> l.tableName,
                                operation |-> op, queuedAt |-> now])
       /\ queue' = queue \cup {id}
       /\ channel' = channel \cup {id}
  /\ UNCHANGED <<xvars, now, lost, tasks, reconciling, reconLocked, listeners, lvars>>

\* The 'notification' handler of startListening.
ReceiveNotification ==
  /\ notificationListenerClient
  /\ \E r \in channel :
       LET started == StartedBy(Notification(r)) IN
       /\ Len(tasks) + Len(started) <= MaxTasks
       /\ channel' = channel \ {r}
       /\ tasks' = tasks \o started
  /\ UNCHANGED <<xvars, now, rows, queue, lost, reconciling, reconLocked, listeners, lvars>>

\* A NOTIFY message that never reaches the process (the listener connection
\* dropped, or nobody was listening when it was sent).
LoseNotification ==
  /\ \E r \in channel :
       /\ channel' = channel \ {r}
       /\ lost' = lost \cup {r}
  /\ UNCHANGED <<xvars, now, rows, queue, tasks, reconciling, reconLocked, listeners, lvars>>

\* ------------------------------------------------------ EventQueue.dequeue
SelectWithoutForUpdate(r) == FALSE

\* SELECT ... FOR UPDATE waits while another transaction holds the row's lock.
SelectWaits(r) == r \in queue /\ Locked(r)

\* What follows the callback inside dequeue's transaction: the DELETE when the
\* awaited callback returned, otherwise the failure leaves the transaction
\* body and DatabaseClient.transaction rolls back.
AfterCallbackIgnoringFailure(settled) == "delete"

AfterCallback(settled) == IF settled = "resolved" THEN "delete" ELSE "rollback"

SetTask(i, t) == tasks' = [tasks EXCEPT ![i] = t]

\* results.rowCount of the SELECT: is the row in the committed queue table.
\* The variant also finds a row that a committed dequeue deleted.
RowFoundThoughDeleted(r) == r \in RowIds
RowFound(r) == r \in queue

\* pool.connect(); BEGIN; SELECT * FROM queue WHERE id = $1 FOR UPDATE. Without
\* a row the transaction body returns at once and the empty transaction
\* commits. A pool that was ended rejects connect(), and so does dequeue.
DequeueSelect(i) ==
  LET t == tasks[i] IN
  /\ t.pc = "begin"
  /\ poolEnded \/ ~SelectWaits(t.rowId)
  /\ IF poolEnded
       THEN SetTask(i, [t EXCEPT !.pc = "done", !.result = "rejected"])
       ELSE IF RowFound(t.rowId)
         THEN SetTask(i, [t EXCEPT !.pc = "callback"])
         ELSE SetTask(i, [t EXCEPT !.pc = "done", !.result = "undefined"])
  /\ UNCHANGED <<xvars, now, rows, queue, channel, lost, reconciling, reconLocked, listeners, lvars>>

\* await Promise.resolve(callback.apply(callback, [ row ])).
DequeueCallback(i) ==
  LET t == tasks[i] IN
  /\ t.pc = "callback"
  /\ \E beh \in [Handlers -> Behaviours] :
       LET res == IF t.handler = "dispatcher"
                    THEN DispatcherCallback(rows[t.rowId], beh)
                    ELSE LivenessCallback(rows[t.rowId])
       IN SetTask(i, [t EXCEPT !.calls = res.calls, !.settled = res.settled,
                                !.pc = AfterCallback(res.settled)])
  /\ lastHeartbeat' = IF t.handler = "liveness"
                        THEN LivenessCallbackHeartbeat(rows[t.rowId])
                        ELSE lastHeartbeat
  /\ UNCHANGED <<xvars, now, rows, queue, channel, lost, reconciling, reconLocked, listeners,
                 notificationListenerClient, reconciliationTimer, pulseIntervalMs,
                 maxMissedPulses, intervalTimer, nextPulseAt, pulses, emitted,
                 recoveries, poolEnded, leakedPulseTimers, starts>>

\* DELETE FROM queue WHERE id = $1, inside the transaction.
DequeueDelete(i) ==
  LET t == tasks[i] IN
  /\ t.pc = "delete"
  /\ SetTask(i, [t EXCEPT !.deleted = TRUE, !.pc = "commit"])
  /\ UNCHANGED <<xvars, now, rows, queue, channel, lost, reconciling, reconLocked, listeners, lvars>>

\* COMMIT: the DELETE becomes visible and the row lock is released.
DequeueCommit(i) ==
  LET t == tasks[i] IN
  /\ t.pc = "commit"
  /\ queue' = IF t.deleted THEN queue \ {t.rowId} ELSE queue
  /\ SetTask(i, [t EXCEPT !.pc = "done", !.result = "resolved"])
  /\ UNCHANGED <<xvars, now, rows, channel, lost, reconciling, reconLocked, listeners, lvars>>

\* A caller invokes dequeue(rowId, callback) for any row id, also one that
\* never existed or is gone.
DequeueCall ==
  /\ Len(tasks) < MaxTasks
  /\ \E rowId \in 1..(MaxRows + 1) : tasks' = Append(tasks, NewTask(rowId, "dispatcher"))
  /\ UNCHANGED <<xvars, now, rows, queue, channel, lost, reconciling, reconLocked, listeners, lvars>>

\* ROLLBACK; throw error: the row lock is released, the caller of dequeue gets
\* the callback's failure.
DequeueRollback(i) ==
  LET t == tasks[i] IN
  /\ t.pc = "rollback"
  /\ SetTask(i, [t EXCEPT !.pc = "done", !.result = "rejected"])
  /\ UNCHANGED <<xvars, now, rows, queue, channel, lost, reconciling, reconLocked, listeners, lvars>>

\* --------------------------------------- EventQueue.reconcileQueuedEvents
\* The orders in which ORDER BY "queuedAt" ASC may return the rows of S.
ScanOrders(S) ==
  { s \in [1..Cardinality(S) -> S] :
      /\ \A i, j \in 1..Cardinality(S) : i # j => s[i] # s[j]
      /\ \A i \in 1..(Cardinality(S) - 1) : rows[s[i]].queuedAt <= rows[s[i + 1]].queuedAt }

UnlockedOrNot == queue

\* FOR UPDATE SKIP LOCKED: the rows no other transaction holds locked.
Unlocked == { r \in queue : ~Locked(r) }

RECURSIVE NotificationsOf(_)
NotificationsOf(s) ==
  IF s = <<>> THEN <<>> ELSE <<Notification(Head(s))>> \o NotificationsOf(Tail(s))

\* The timer fires: BEGIN, the scan, and data.rows.forEach(emitNotification),
\* which is synchronous; the rows stay locked until ReconcileCommit.
ReconcileUpTo(limit) ==
  /\ reconciliationTimer
  /\ ~poolEnded
  /\ ~reconciling
  /\ \E s \in ScanOrders(Unlocked) :
       LET scanned == SubSeq(s, 1, Min(Len(s), limit))
           started == StartedByAll(NotificationsOf(scanned))
       IN /\ Len(tasks) + Len(started) <= MaxTasks
          /\ tasks' = tasks \o started
          /\ reconLocked' = { scanned[i] : i \in 1..Len(scanned) }
  /\ reconciling' = TRUE
  /\ UNCHANGED <<xvars, now, rows, queue, channel, lost, listeners, lvars>>

Reconcile == ReconcileUpTo(ReconcileLimit)

\* The variant awaits the dequeues that its emits started before it returns.
AwaitedByPassIfAwaited ==
  { i \in 1..Len(tasks) : tasks[i].rowId \in reconLocked /\ tasks[i].pc # "done" }

\* The dequeues the transaction body of a pass awaits before it returns:
\* none, forEach and emit discard what the listeners return.
AwaitedByPass == {}

\* COMMIT of the reconciliation transaction: its locks are released.
ReconcileCommit ==
  /\ reconciling
  /\ \A i \in AwaitedByPass : tasks[i].pc = "done"
  /\ reconciling' = FALSE
  /\ reconLocked' = {}
  /\ UNCHANGED <<xvars, now, rows, queue, channel, lost, tasks, listeners, lvars>>

\* ------------------------------------------------------------- the clock
Tick ==
  /\ now < MaxTime
  /\ now' = now + 1
  /\ UNCHANGED <<xvars, qvars, lvars>>

\* --------------------------------------------------------- LivenessChecker
\* get status(): isHealthy and isDead compare lastHeartbeat with now minus the
\* two thresholds; the getter returns 'dead' when isDead holds.
status(last, t, interval, missed) ==
  LET isHealthy == last > t - (interval * missed)
      isDead == last > t - (interval * missed * 3)
      st == IF isHealthy THEN "healthy" ELSE "unhealthy"
  IN IF isDead THEN "dead" ELSE st

\* setInterval(() => this.pulse(), pulseIntervalMs): the timer comes due; pulse()
\* calls queueInternal, which stamps queuedAt: new Date() before it awaits.
PulseFire ==
  /\ intervalTimer
  /\ now >= nextPulseAt
  /\ Len(pulses) < MaxPulses
  /\ pulses' = Append(pulses, [pc |-> "enqueue", queuedAt |-> now])
  /\ nextPulseAt' = now + pulseIntervalMs
  /\ UNCHANGED <<xvars, now, qvars, notificationListenerClient, reconciliationTimer, pulseIntervalMs,
                 maxMissedPulses, lastHeartbeat, intervalTimer, emitted, recoveries, poolEnded,
                 leakedPulseTimers, starts>>

\* await this.eventQueue.queueInternal(LIVENESS_PULSE): the INSERT commits and
\* the queue-table trigger sends NOTIFY, or the transaction fails (the pool was
\* ended, or the database is unreachable) and pulse() rejects at the await.
PulseEnqueue(p) ==
  /\ pulses[p].pc = "enqueue"
  /\ \/ /\ ~poolEnded
        /\ Len(rows) < MaxRows
        /\ LET id == Len(rows) + 1 IN
             /\ rows' = Append(rows, [id |-> id, tableName |-> internalPseudoTableName,
                                      operation |-> "LIVENESS_PULSE",
                                      queuedAt |-> pulses[p].queuedAt])
             /\ queue' = queue \cup {id}
             /\ channel' = channel \cup {id}
        /\ pulses' = [pulses EXCEPT ![p].pc = "emit"]
     \/ /\ pulses' = [pulses EXCEPT ![p].pc = "failed"]
        /\ UNCHANGED <<rows, queue, channel>>
  /\ UNCHANGED <<xvars, now, lost, tasks, reconciling, reconLocked, listeners,
                 notificationListenerClient, reconciliationTimer, pulseIntervalMs,
                 maxMissedPulses, lastHeartbeat, intervalTimer, nextPulseAt, emitted,
                 recoveries, poolEnded, leakedPulseTimers, starts>>

\* The promise pulse() returned for firing p of the pulse timer.
PulsePromise(p) ==
  CASE pulses[p].pc = "failed" -> "rejected"
    [] pulses[p].pc = "done" -> "resolved"
    [] OTHER -> "pending"

\* The interval callbacks () => this.pulse() and () => this.reconcileQueuedEvents()
\* return the promise to the timer, which drops it: nothing handles a rejection.
IntervalCallback(promise) == IF promise = "rejected" THEN "unhandledRejection" ELSE "none"

\* LivenessChecker.start(): lastHeartbeat = new Date(), and a new timer replaces
\* the one intervalTimer referenced; start() does not clear that one, so it
\* stays active when it was.
Start ==
  /\ starts < MaxStarts
  /\ starts' = starts + 1
  /\ lastHeartbeat' = now
  /\ leakedPulseTimers' = leakedPulseTimers + (IF intervalTimer THEN 1 ELSE 0)
  /\ intervalTimer' = TRUE
  /\ nextPulseAt' = now + pulseIntervalMs
  /\ UNCHANGED <<xvars, now, qvars, notificationListenerClient, reconciliationTimer, pulseIntervalMs,
                 maxMissedPulses, pulses, emitted, recoveries, poolEnded>>

\* LivenessChecker.stop(): clearInterval(this.intervalTimer), the timer the
\* field refers to.
Stop ==
  /\ intervalTimer' = FALSE
  /\ UNCHANGED <<xvars, now, qvars, notificationListenerClient, reconciliationTimer, pulseIntervalMs,
                 maxMissedPulses, lastHeartbeat, nextPulseAt, pulses, emitted, recoveries,
                 poolEnded, leakedPulseTimers, starts>>

\* A timer that start() replaced without clearing comes due and calls pulse().
LeakedPulseFire ==
  /\ leakedPulseTimers > 0
  /\ Len(pulses) < MaxPulses
  /\ pulses' = Append(pulses, [pc |-> "enqueue", queuedAt |-> now])
  /\ UNCHANGED <<xvars, now, qvars, notificationListenerClient, reconciliationTimer, pulseIntervalMs,
                 maxMissedPulses, lastHeartbeat, intervalTimer, nextPulseAt, emitted, recoveries,
                 poolEnded, leakedPulseTimers, starts>>

\* The listeners Horton's constructor registers on the LivenessChecker: what
\* each starts besides re-emitting the event.
HortonReaction(event) ==
  CASE event = "unhealthy" -> "reconnect"
    [] event = "dead" -> "disconnect"
    [] OTHER -> "none"

\* this.emit(this.status, { lastHeartbeatAt }) and, synchronously inside emit,
\* the start of Horton's reaction up to its first await:
\*   reconnect():  EventQueue.disconnect(cooldown)
\*   disconnect(): livenessChecker.stop(), then EventQueue.disconnect(gracePeriod)
\* EventQueue.disconnect clears the reconciliation timer and calls
\* stopListening(), which throws when notificationListenerClient is undefined.
PulseEmit(p) ==
  /\ pulses[p].pc = "emit"
  /\ LET st == status(lastHeartbeat, now, pulseIntervalMs, maxMissedPulses)
         reaction == HortonReaction(st)
     IN /\ pulses' = [pulses EXCEPT ![p].pc = "done"]
        /\ emitted' = Append(emitted, [event |-> st, lastHeartbeatAt |-> lastHeartbeat,
                                       at |-> now, pulse |-> p])
        /\ IF reaction = "none"
             THEN UNCHANGED <<intervalTimer, reconciliationTimer,
                              notificationListenerClient, recoveries>>
             ELSE /\ intervalTimer' = IF reaction = "disconnect" THEN FALSE ELSE intervalTimer
                  /\ reconciliationTimer' = FALSE
                  /\ notificationListenerClient' = FALSE
                  /\ recoveries' = Append(recoveries,
                       [kind |-> reaction, event |-> Len(emitted) + 1,
                        pc |-> IF notificationListenerClient THEN "waiting" ELSE "failed"])
  /\ UNCHANGED <<xvars, now, qvars, pulseIntervalMs, maxMissedPulses, lastHeartbeat, nextPulseAt,
                 poolEnded, leakedPulseTimers, starts>>

\* The grace period or cooldown is over.
\*   reconnect():  connect(): startListening() takes a listener connection (a
\*                 failure is logged and swallowed), then the timer is set.
\*   disconnect(): dbClient.disconnect(): pool.end(), which throws on a pool
\*                 that was already ended.
RecoveryFinish(k) ==
  /\ recoveries[k].pc = "waiting"
  /\ IF recoveries[k].kind = "reconnect"
       THEN /\ notificationListenerClient' = (notificationListenerClient \/ ~poolEnded)
            /\ reconciliationTimer' = TRUE
            /\ recoveries' = [recoveries EXCEPT ![k].pc = "done"]
            /\ UNCHANGED poolEnded
       ELSE /\ poolEnded' = TRUE
            /\ recoveries' = [recoveries EXCEPT ![k].pc = IF poolEnded THEN "failed" ELSE "done"]
            /\ UNCHANGED <<notificationListenerClient, reconciliationTimer>>
  /\ UNCHANGED <<xvars, now, qvars, pulseIntervalMs, maxMissedPulses, lastHeartbeat, intervalTimer,
                 nextPulseAt, pulses, emitted, leakedPulseTimers, starts>>

\* ---------------------------------------------------------- DatabaseClient
\* Connections checked out of the pool by transactions that have not released
\* theirs yet.
TxHolding(t) == t.pc \in {"begin", "fn", "commit", "rollback", "release"}

TxHeld == Cardinality({ i \in 1..Len(txs) : TxHolding(txs[i]) })

Borrowed == connectHeld + TxHeld

\* What a statement sent on the transaction's connection may do.
QueryOutcomes == {"ok", "error"}

\* What the function passed to transaction() may do.
FnOutcomes == {"return", "throw"}

\* transaction(cb) is called.
TxCall ==
  /\ Len(txs) < MaxTx
  /\ txs' = Append(txs, [pc |-> "connect", failure |-> "none", thrown |-> "none",
                          committed |-> FALSE, rolledBack |-> FALSE, released |-> 0,
                          borrowedOne |-> FALSE, result |-> "pending"])
  /\ UNCHANGED <<now, qvars, lvars, connectHeld, gwCalls, nvars, evars, svars>>

\* const client = await this.pool.connect(), before the try block: a failure
\* (the pool was ended, the server is unreachable) rejects transaction() with
\* no connection taken.
TxConnect(i) ==
  /\ txs[i].pc = "connect"
  /\ \/ /\ ~poolEnded
        /\ txs' = [txs EXCEPT ![i].pc = "begin", ![i].borrowedOne = TRUE]
     \/ txs' = [txs EXCEPT ![i].pc = "done", ![i].failure = "connect",
                            ![i].thrown = "connect", ![i].result = "rejected"]
  /\ UNCHANGED <<now, qvars, lvars, connectHeld, gwCalls, nvars, evars, svars>>

\* await client.query('BEGIN').
TxBegin(i) ==
  /\ txs[i].pc = "begin"
  /\ \E q \in QueryOutcomes :
       txs' = IF q = "ok" THEN [txs EXCEPT ![i].pc = "fn"]
              ELSE [txs EXCEPT ![i].pc = "rollback", ![i].failure = "begin"]
  /\ UNCHANGED <<now, qvars, lvars, connectHeld, gwCalls, nvars, evars, svars>>

\* await Promise.resolve(cb.apply(cb, [ client ])).
TxFn(i) ==
  /\ txs[i].pc = "fn"
  /\ \E f \in FnOutcomes :
       txs' = IF f = "return" THEN [txs EXCEPT ![i].pc = "commit"]
              ELSE [txs EXCEPT ![i].pc = "rollback", ![i].failure = "fn"]
  /\ UNCHANGED <<now, qvars, lvars, connectHeld, gwCalls, nvars, evars, svars>>

\* await client.query('COMMIT'); return result.
TxCommit(i) ==
  /\ txs[i].pc = "commit"
  /\ \E q \in QueryOutcomes :
       txs' = IF q = "ok" THEN [txs EXCEPT ![i].pc = "release", ![i].committed = TRUE]
              ELSE [txs EXCEPT ![i].pc = "rollback", ![i].failure = "commit"]
  /\ UNCHANGED <<now, qvars, lvars, connectHeld, gwCalls, nvars, evars, svars>>

\* catch (error) { await client.query('ROLLBACK'); throw error; }: when the
\* ROLLBACK itself fails, its error leaves the catch block and the throw of the
\* caught error is never reached.
TxRollback(i) ==
  /\ txs[i].pc = "rollback"
  /\ \E q \in QueryOutcomes :
       txs' = IF q = "ok"
              THEN [txs EXCEPT ![i].pc = "release", ![i].rolledBack = TRUE,
                               ![i].thrown = txs[i].failure]
              ELSE [txs EXCEPT ![i].pc = "release", ![i].thrown = "rollback"]
  /\ UNCHANGED <<now, qvars, lvars, connectHeld, gwCalls, nvars, evars, svars>>

\* finally { client.release(); }, then transaction() settles.
TxRelease(i) ==
  /\ txs[i].pc = "release"
  /\ txs' = [txs EXCEPT ![i].pc = "done", ![i].released = txs[i].released + 1,
                         ![i].result = IF txs[i].thrown = "none" THEN "resolved" ELSE "rejected"]
  /\ UNCHANGED <<now, qvars, lvars, connectHeld, gwCalls, nvars, evars, svars>>

\* DatabaseClient.connect(): await this.pool.connect(); the connection it gets
\* is not kept and not released. An ended pool rejects connect().
GwConnect ==
  /\ Len(gwCalls) < MaxCalls
  /\ IF poolEnded
       THEN /\ gwCalls' = Append(gwCalls, [op |-> "connect", result |-> "rejected",
                                           ended |-> poolEnded, held |-> connectHeld])
            /\ UNCHANGED connectHeld
       ELSE /\ gwCalls' = Append(gwCalls, [op |-> "connect", result |-> "resolved",
                                           ended |-> poolEnded, held |-> connectHeld + 1])
            /\ connectHeld' = connectHeld + 1
  /\ UNCHANGED <<now, qvars, poolEnded, txs, nvars, evars, svars,
                 notificationListenerClient, reconciliationTimer, pulseIntervalMs,
                 maxMissedPulses, lastHeartbeat, intervalTimer, nextPulseAt, pulses, emitted,
                 recoveries, leakedPulseTimers, starts>>

\* DatabaseClient.disconnect(): await this.pool.end(). end() on a pool that is
\* already ending rejects; otherwise the pool stops handing out connections
\* and end() resolves once no connection is checked out.
GwDisconnect ==
  /\ Len(gwCalls) < MaxCalls
  /\ gwCalls' = Append(gwCalls,
       [op |-> "disconnect",
        result |-> IF poolEnded THEN "rejected"
                   ELSE IF Borrowed = 0 THEN "resolved" ELSE "pending",
        ended |-> TRUE, held |-> connectHeld])
  /\ poolEnded' = TRUE
  /\ UNCHANGED <<now, qvars, connectHeld, txs, nvars, evars, svars,
                 notificationListenerClient, reconciliationTimer, pulseIntervalMs,
                 maxMissedPulses, lastHeartbeat, intervalTimer, nextPulseAt, pulses, emitted,
                 recoveries, leakedPulseTimers, starts>>

\* The last checked-out connection came back: a waiting end() resolves.
GwEndResolve(k) ==
  /\ gwCalls[k].result = "pending"
  /\ Borrowed = 0
  /\ gwCalls' = [gwCalls EXCEPT ![k].result = "resolved"]
  /\ UNCHANGED <<now, qvars, lvars, connectHeld, txs, nvars, evars, svars>>

\* ------------------------------------------------- DatabaseClient.prefixName
\* Strings are sequences of characters. "a" stands for the letters a-z and "A"
\* for every character outside the class [a-z-_] (upper case, digits, quotes).
Chars == {"a", "_", "-", "A"}

\* The character class [a-z-_].
ClassChars == {"a", "_", "-"}

StringsUpTo(n) == UNION { [1..k -> Chars] : k \in 0..n }

\* /^([a-z-_])+$/.exec(str): one or more characters, all of the class.
validatePostgresString(str) ==
  Len(str) >= 1 /\ \A k \in 1..Len(str) : str[k] \in ClassChars

\* prefixName(name) without an escaper: the concatenation is validated as a
\* whole; an invalid one throws.
prefixName(name) ==
  LET prefixedName == prefix \o <<"_", "_">> \o name
  IN IF ~validatePostgresString(prefixedName)
       THEN [thrown |-> TRUE, value |-> <<>>]
       ELSE [thrown |-> FALSE, value |-> prefixedName]

\* A caller passes a logical name to prefixName().
PrefixNameCall ==
  /\ Len(named) < MaxNamed
  /\ \E name \in StringsUpTo(MaxNameLen) :
       LET r == prefixName(name)
       IN named' = Append(named, [name |-> name, thrown |-> r.thrown, value |-> r.value])
  /\ UNCHANGED <<now, qvars, lvars, gvars, prefix, svars, evars>>

\* ------------------------------------------------------- listener triggers
\* TRIGGER_OPERATIONS of common/constants.ts.
TRIGGER_OPERATIONS == {"INSERT", "UPDATE", "DELETE", "TRUNCATE"}

\* Values a caller may pass as an operation ("SELECT" is not an operation).
OperationNames == TRIGGER_OPERATIONS \cup {"SELECT"}

\* The operations a row-level trigger can fire for.
RowOperations == {"INSERT", "UPDATE", "DELETE"}

SourceTables == {"t", "u"}

\* The columns of a source table, and the order in which jsonb stores object
\* keys (shorter keys first, then bytewise).
Columns == {"id", "name"}
JsonbKeyOrder == <<"id", "name">>

\* Column values; "NULL" is the SQL null.
ColumnValues == {"v", "NULL"}
SourceRows == [Columns -> ColumnValues]

\* OLD of an INSERT and NEW of a DELETE: a record whose fields are all null.
NullRow == [c \in Columns |-> "NULL"]

\* recordColumns / keepColumns: not given, or a list of column names.
Absent == [given |-> FALSE, columns |-> <<>>]
KeepColumns(list) == [given |-> TRUE, columns |-> list]
KeepColumnsChoices ==
  {Absent, KeepColumns(<<>>), KeepColumns(<<"name">>), KeepColumns(<<"name", "id">>)}

\* A JSONB value of the queue table: SQL NULL, or an object as the sequence of
\* its <<key, value>> pairs in stored order.
JsonNull == [null |-> TRUE, pairs |-> <<>>]
JsonObject(pairs) == [null |-> FALSE, pairs |-> pairs]
JsonValue(v) == IF v = "NULL" THEN "null" ELSE v

\* row IS NULL: true when every field of the record is null.
RowIsNull(row) == \A c \in Columns : row[c] = "NULL"

\* What jsonb keeps of the keys it is given: each key once, in JsonbKeyOrder.
JsonbKeys(keys) == SelectSeq(JsonbKeyOrder, LAMBDA c : c \in keys)

to_jsonb(row) ==
  LET keys == JsonbKeys(Columns)
  IN JsonObject([k \in 1..Len(keys) |-> <<keys[k], JsonValue(row[keys[k]])>>])

jsonb_build_object(columns, row) ==
  LET keys == JsonbKeys({ columns[k] : k \in 1..Len(columns) })
  IN JsonObject([k \in 1..Len(keys) |-> <<keys[k], JsonValue(row[keys[k]])>>])

\* The expression createJsonFormatter(source) puts into the trigger function,
\* evaluated on the row that source (OLD or NEW) holds.
createJsonFormatter(keepColumns, row) ==
  IF ~keepColumns.given
    THEN IF RowIsNull(row) THEN JsonNull ELSE to_jsonb(row)
    ELSE IF keepColumns.columns = <<>>
      THEN JsonNull
      ELSE jsonb_build_object(keepColumns.columns, row)

\* createListenerTrigger(client, tableName, operations, keepColumns): "thrown"
\* when the validation throws before any query; otherwise the statement is
\* sent, and PostgreSQL rejects AFTER with no event and a row-level TRUNCATE
\* trigger.
createListenerTrigger(tableName, operations, keepColumns) ==
  IF \E o \in operations : o \notin TRIGGER_OPERATIONS
    THEN "thrown"
    ELSE IF operations = {} \/ "TRUNCATE" \in operations
      THEN "sql_error"
      ELSE "created"

\* A table -> trigger map with one more (or one replaced) trigger.
WithTrigger(map, tableName, operations, keepColumns) ==
  [tb \in DOMAIN map \cup {tableName} |->
     IF tb = tableName THEN [operations |-> operations, keepColumns |-> keepColumns]
     ELSE map[tb]]

\* A transaction that calls createListenerTrigger() once, as createListeners()
\* does for a configured listener.
CreateListenerTriggerCall ==
  /\ Len(installs) < MaxInstalls
  /\ \E tableName \in SourceTables, operations \in SUBSET OperationNames,
        keepColumns \in KeepColumnsChoices :
       LET outcome == createListenerTrigger(tableName, operations, keepColumns)
       IN /\ installs' = Append(installs, [tableName |-> tableName,
                                           operations |-> operations,
                                           keepColumns |-> keepColumns,
                                           outcome |-> outcome])
          /\ installed' = IF outcome = "created"
                            THEN WithTrigger(installed, tableName, operations, keepColumns)
                            ELSE installed
  /\ UNCHANGED <<now, qvars, lvars, gvars, nvars, evars, listenerOptions, queueTable, ddl,
                 firings, lifecycle>>

\* A statement of the host changes one row of a source table that carries a
\* listener trigger: the trigger function inserts the queue row, whose insert
\* notifies the channel. A failing insert fails the host's statement.
SourceWrite ==
  /\ Len(firings) < MaxFirings
  /\ Len(rows) < MaxRows
  /\ \E tableName \in DOMAIN installed :
     \E operation \in installed[tableName].operations \cap RowOperations :
     \E old \in IF operation = "INSERT" THEN {NullRow} ELSE SourceRows :
     \E new \in IF operation = "DELETE" THEN {NullRow} ELSE SourceRows :
       LET keepColumns == installed[tableName].keepColumns
           previousRecord == createJsonFormatter(keepColumns, old)
           currentRecord == createJsonFormatter(keepColumns, new)
           outcome == IF ~queueTable THEN "undefined_table"
                      ELSE IF currentRecord.null THEN "not_null_violation"
                      ELSE "queued"
           id == Len(rows) + 1
       IN /\ firings' = Append(firings, [tableName |-> tableName,
                                         operation |-> operation,
                                         keepColumns |-> keepColumns,
                                         old |-> old, new |-> new,
                                         previousRecord |-> previousRecord,
                                         currentRecord |-> currentRecord,
                                         outcome |-> outcome])
          /\ IF outcome = "queued"
               THEN /\ rows' = Append(rows, [id |-> id, tableName |-> tableName,
                                             operation |-> operation, queuedAt |-> now])
                    /\ queue' = queue \cup {id}
                    /\ channel' = channel \cup {id}
               ELSE UNCHANGED <<rows, queue, channel>>
  /\ UNCHANGED <<now, lost, tasks, reconciling, reconLocked, listeners, lvars, gvars, nvars, evars,
                 listenerOptions, installed, queueTable, ddl, installs, lifecycle>>

\* ------------------------------------------------- the channel listener
\* A channel payload as the fields payload.split(':') gives (a string is its
\* fields joined by ':'); <<>> is a message without a payload.
PayloadFields ==
  {"", "1", "t", internalPseudoTableName, "INSERT", "LIVENESS_PULSE", "TRUNCATE"}
Payloads == UNION { [1..n -> PayloadFields] : n \in 0..MaxFields }

\* const [ rowId, tableName, operation ] = fields: a missing field is
\* undefined, which is falsy like the empty string.
Destructure(fields, k) == IF k <= Len(fields) THEN fields[k] ELSE ""

\* Number(rowId); NaN for a string that is not a number.
NaN == -1
NumberOf(str) ==
  CASE str = "1" -> 1
    [] str = "2" -> 2
    [] str = "3" -> 3
    [] OTHER -> NaN

\* The events with their payload that emitNotification(n) emits.
EmittedFor(n) ==
  LET es == emitNotification(n)
  IN [k \in 1..Len(es) |-> [event |-> es[k], rowId |-> n.rowId]]

\* The 'notification' handler of the listener connection.
OnNotification(fields) ==
  LET rowId == Destructure(fields, 1)
      tableName == Destructure(fields, 2)
      operation == Destructure(fields, 3)
  IN IF rowId = "" \/ tableName = "" \/ operation = ""
       THEN <<>>
       ELSE IF ~isTriggerOperation(operation) /\ ~isInternalOperation(operation)
         THEN <<>>
         ELSE EmittedFor([rowId |-> NumberOf(rowId), tableName |-> tableName,
                          operation |-> operation,
                          isInternal |-> (tableName = internalPseudoTableName)])

RECURSIVE EventNames(_)
EventNames(es) == IF es = <<>> THEN <<>> ELSE <<Head(es).event>> \o EventNames(Tail(es))

\* A message with any payload arrives on the channel (any session may NOTIFY):
\* the handler emits its events, whose listeners call dequeue.
ReceivePayload ==
  /\ notificationListenerClient
  /\ Len(routed) < MaxRouted
  /\ \E fields \in Payloads :
       LET events == OnNotification(fields)
           started == IF events = <<>> THEN <<>>
                      ELSE TasksForEvents(events[1].rowId, EventNames(events))
       IN /\ Len(tasks) + Len(started) <= MaxTasks
          /\ tasks' = tasks \o started
          /\ routed' = Append(routed, [payload |-> fields, events |-> events,
                                       started |-> Len(started)])
  /\ UNCHANGED <<now, rows, queue, channel, lost, reconciling, reconLocked, listeners, lvars,
                 gvars, nvars, svars, eventQueueOptions, reconciliationIntervalMs,
                 reconciliationArmedAt, reconciliationFirings, cvars, ivars>>

\* row.queuedAt is the caller's: queueInternal passes new Date(), any other
\* caller the time it chooses.
QueuedAtChoices == 0..MaxQueuedAt

\* queue(row): a transaction inserts the row into the queue table, whose
\* trigger sends NOTIFY.
QueueCall ==
  /\ Len(rows) < MaxRows
  /\ ~poolEnded
  /\ \E tableName \in {"t", internalPseudoTableName},
        operation \in {"INSERT", "LIVENESS_PULSE"}, queuedAt \in QueuedAtChoices :
       LET id == Len(rows) + 1 IN
       /\ rows' = Append(rows, [id |-> id, tableName |-> tableName,
                                operation |-> operation, queuedAt |-> queuedAt])
       /\ queue' = queue \cup {id}
       /\ channel' = channel \cup {id}
  /\ UNCHANGED <<xvars, now, lost, tasks, reconciling, reconLocked, listeners, lvars>>

\* ------------------------------------------------- the reconciliation timer
\* JavaScript values an option or a field may hold: undefined, a number, or
\* an options object whose reconciliationFrequencyMs is given or not.
Undefined == [kind |-> "undefined", given |-> FALSE, ms |-> 0]
NumberValue(n) == [kind |-> "number", given |-> TRUE, ms |-> n]
OptionsObject(given, ms) == [kind |-> "object", given |-> given, ms |-> ms]

\* The largest delay a Node.js timer accepts.
TIMEOUT_MAX == 2147483647

\* setInterval(callback, delay): a delay that is not a number from 1 to
\* TIMEOUT_MAX (undefined and objects convert to NaN) is replaced by 1.
TimerDelay(delay) ==
  IF delay.kind = "number" /\ delay.ms >= 1 /\ delay.ms <= TIMEOUT_MAX THEN delay.ms ELSE 1

\* new EventQueue(dbClient, options.eventQueueOptions): the constructor stores
\* its second argument in reconciliationIntervalMs as it is.
EventQueueConstructor(options) == options

\* The reconciliation timer fires: the clock has reached the time it was due,
\* the interval is armed again, and the pass it starts finds the queue empty.
ReconciliationTimerFire ==
  /\ reconciliationTimer
  /\ queue = {}
  /\ Len(reconciliationFirings) < MaxReconciliations
  /\ LET due == reconciliationArmedAt + TimerDelay(reconciliationIntervalMs)
     IN /\ now' = IF now < due THEN due ELSE now
        /\ reconciliationFirings' =
             Append(reconciliationFirings, [armedAt |-> reconciliationArmedAt, at |-> due])
        /\ reconciliationArmedAt' = due
  /\ UNCHANGED <<qvars, lvars, gvars, nvars, svars, eventQueueOptions, reconciliationIntervalMs,
                 routed, cvars, ivars>>

\* ------------------------------------------- the EventQueue's lifecycle
\* disconnect(gracePeriod = 5_000), reconnect(cooldown = 5_000).
DefaultGracePeriod == 5000
GracePeriod(arg) == IF arg.given THEN arg.ms ELSE DefaultGracePeriod
GracePeriodChoices == {Undefined} \cup { NumberValue(n) : n \in 0..MaxGrace }

QueueCallFinished(k) == queueCalls[k].pc \in {"done", "failed"}

QueueStepped(k, steps, pc) ==
  [queueCalls EXCEPT ![k].steps = @ \o steps, ![k].pc = pc]

\* clearInterval(this.reconciliationTimer); this.stopListening(), which
\* dereferences the listener connection.
StopListeningThrows == ~notificationListenerClient

\* A call of connect(), disconnect(gracePeriod) or reconnect(cooldown), up to
\* its first await. connect() enters startListening(), which takes a new
\* connection only if (!this.notificationListenerClient); disconnect() and
\* reconnect() clear the timer and release the listener connection, and
\* reject when stopListening() throws.
QueueLifecycleCall ==
  /\ Len(queueCalls) < MaxQueueCalls
  /\ \E op \in {"connect", "disconnect", "reconnect"}, arg \in GracePeriodChoices :
       LET call == [op |-> op, gracePeriod |-> arg, pc |-> "listen", steps |-> <<>>,
                    creates |-> ~notificationListenerClient, calledAt |-> now,
                    waitUntil |-> 0, waited |-> 0,
                    connections |-> 0, timers |-> 0,
                    pending |-> \E j \in 1..Len(queueCalls) : ~QueueCallFinished(j),
                    before |-> [client |-> notificationListenerClient,
                                connections |-> listenerConnections,
                                timers |-> Cardinality(liveTimers)]]
       IN IF op = "connect"
            THEN /\ arg = Undefined
                 /\ queueCalls' = Append(queueCalls, call)
                 /\ UNCHANGED <<notificationListenerClient, reconciliationTimer, liveTimers,
                                listenerConnections>>
            ELSE /\ liveTimers' = liveTimers \ {timerHandle}
                 /\ reconciliationTimer' = (liveTimers' # {})
                 /\ IF StopListeningThrows
                      THEN /\ queueCalls' = Append(queueCalls,
                                [call EXCEPT !.pc = "failed",
                                             !.steps = <<"timer_cleared", "release_threw">>])
                           /\ UNCHANGED <<notificationListenerClient, listenerConnections>>
                      ELSE /\ queueCalls' = Append(queueCalls,
                                [call EXCEPT !.pc = "grace",
                                             !.steps = <<"timer_cleared", "released">>,
                                             !.waitUntil = now + GracePeriod(arg)])
                           /\ notificationListenerClient' = FALSE
                           /\ listenerConnections' = listenerConnections - 1
  /\ UNCHANGED <<now, qvars, pulseIntervalMs, maxMissedPulses, lastHeartbeat, intervalTimer,
                 nextPulseAt, pulses, emitted, recoveries, poolEnded, leakedPulseTimers, starts,
                 gvars, nvars, svars, eventQueueOptions, reconciliationIntervalMs,
                 reconciliationArmedAt, reconciliationFirings, routed, timerHandle,
                 ivars>>

\* The grace period is over: disconnect() completes, reconnect() calls
\* connect(), which enters startListening().
QueueGraceOver(k) ==
  /\ queueCalls[k].pc = "grace"
  /\ now' = IF now < queueCalls[k].waitUntil THEN queueCalls[k].waitUntil ELSE now
  /\ LET waited == [QueueStepped(k, <<"waited">>, "done")
                      EXCEPT ![k].waited = now' - queueCalls[k].calledAt]
     IN queueCalls' =
          IF queueCalls[k].op = "disconnect"
            THEN [waited EXCEPT ![k].connections = listenerConnections,
                                ![k].timers = Cardinality(liveTimers)]
            ELSE [waited EXCEPT ![k].pc = "listen",
                                ![k].creates = ~notificationListenerClient]
  /\ UNCHANGED <<qvars, lvars, gvars, nvars, svars, eventQueueOptions, reconciliationIntervalMs,
                 reconciliationArmedAt, reconciliationFirings, routed, timerHandle, liveTimers,
                 listenerConnections, ivars>>

\* startListening() settles: the connection it took, if it took one, is kept
\* as the listener connection; a failure is logged and absorbed. connect()
\* then sets the reconciliation interval and completes.
AfterListenRethrown(ok) == IF ok THEN "timer" ELSE "failed"

\* .then(...).catch(error => logger.error('Failed to start listening', error)):
\* connect() goes on to set the timer whether startListening() resolved or not.
AfterListen(ok) == "timer"

QueueListenSettled(k) ==
  /\ queueCalls[k].pc = "listen"
  /\ \E ok \in BOOLEAN :
       LET took == ok /\ queueCalls[k].creates
           handle == timerHandle + 1
           listened == IF ok THEN "listening" ELSE "listen_failed"
       IN /\ notificationListenerClient' = (notificationListenerClient \/ took)
          /\ listenerConnections' = listenerConnections + (IF took THEN 1 ELSE 0)
          /\ IF AfterListen(ok) = "timer"
               THEN /\ timerHandle' = handle
                    /\ liveTimers' = liveTimers \cup {handle}
                    /\ queueCalls' =
                         [QueueStepped(k, <<listened, "timer">>, "done")
                            EXCEPT ![k].connections = listenerConnections',
                                   ![k].timers = Cardinality(liveTimers')]
                    /\ reconciliationTimer' = TRUE
                    /\ reconciliationArmedAt' = now
               ELSE /\ queueCalls' = QueueStepped(k, <<listened>>, "failed")
                    /\ UNCHANGED <<timerHandle, liveTimers, reconciliationTimer,
                                   reconciliationArmedAt>>
  /\ UNCHANGED <<now, qvars, pulseIntervalMs, maxMissedPulses, lastHeartbeat, intervalTimer,
                 nextPulseAt, pulses, emitted, recoveries, poolEnded, leakedPulseTimers, starts,
                 gvars, nvars, svars, eventQueueOptions, reconciliationIntervalMs,
                 reconciliationFirings, routed, ivars>>

\* ------------------------------------------------ the queue table's schema
\* The columns create() gives the queue table, as information_schema.columns
\* reports them; validate() expects the same list.
expectedColumns ==
  << [name |-> "id", type |-> "integer", nullable |-> "NO"],
     [name |-> "tableName", type |-> "name", nullable |-> "NO"],
     [name |-> "operation", type |-> "text", nullable |-> "NO"],
     [name |-> "previousRecord", type |-> "jsonb", nullable |-> "YES"],
     [name |-> "currentRecord", type |-> "jsonb", nullable |-> "NO"],
     [name |-> "queuedAt", type |-> "timestamp with time zone", nullable |-> "NO"] >>

\* create(): CREATE TABLE IF NOT EXISTS leaves an existing table as it is.
create(exists, columns) == IF exists THEN columns ELSE expectedColumns

\* validate(): TRUE when it returns, FALSE when it throws 'Queue table exists
\* but is not valid'.
validate(tableData) ==
  /\ Len(tableData) = Len(expectedColumns)
  /\ \A r \in 1..Len(tableData) : \E c \in 1..Len(expectedColumns) :
       /\ tableData[r].name = expectedColumns[c].name
       /\ tableData[r].type = expectedColumns[c].type

\* The server after initialize() on a database without the queue table, and
\* without the table.
QueueTableAsCreated ==
  /\ queueColumns = IF queueTable THEN expectedColumns ELSE <<>>
  /\ queueTrigger = queueTable
  /\ initializes = <<>>

\* initialize(): one transaction that runs create(), validate() and
\* createTrigger(); a throw of validate() rolls it back.
InitializeCall ==
  /\ Len(initializes) < MaxInitializes
  /\ ~poolEnded
  /\ LET created == create(queueTable, queueColumns)
         valid == validate(created)
         call == [existed |-> queueTable, before |-> queueColumns,
                  triggerBefore |-> queueTrigger,
                  outcome |-> IF valid THEN "resolved"
                              ELSE "Queue table exists but is not valid"]
     IN IF valid
          THEN /\ queueTable' = TRUE
               /\ queueColumns' = created
               /\ queueTrigger' = TRUE
               /\ initializes' = Append(initializes,
                    [call EXCEPT !.outcome = "resolved"] @@
                    [after |-> created, triggerAfter |-> TRUE, triggerCreated |-> TRUE])
          ELSE /\ UNCHANGED <<queueTable, queueColumns, queueTrigger>>
               /\ initializes' = Append(initializes,
                    call @@ [after |-> queueColumns, triggerAfter |-> queueTrigger,
                             triggerCreated |-> FALSE])
  /\ UNCHANGED <<now, qvars, lvars, gvars, nvars, listenerOptions, installed, ddl, installs,
                 firings, lifecycle, eventQueueOptions, reconciliationIntervalMs,
                 reconciliationArmedAt, reconciliationFirings, routed, cvars>>

\* teardown(): this.dbClient.transaction(client => this.drop(client)), DROP
\* TABLE IF EXISTS ... CASCADE, which drops the table's trigger with it.
DropCall ==
  /\ ~poolEnded
  /\ queueTable' = FALSE
  /\ queueColumns' = <<>>
  /\ queueTrigger' = FALSE
  /\ UNCHANGED <<now, qvars, lvars, gvars, nvars, listenerOptions, installed, ddl, installs,
                 firings, lifecycle, eventQueueOptions, reconciliationIntervalMs,
                 reconciliationArmedAt, reconciliationFirings, routed, cvars, initializes>>

\* ------------------------------------------------------- Horton lifecycle
\* formatTableListenerOptions(): the configured tables with some operation.
tableListenerNames == { tb \in DOMAIN listenerOptions : listenerOptions[tb].operations # {} }

\* findListenerTriggers(): the tables that carry a trigger of the prefix.
\* The variant finds the triggers of configured tables only.
findListenerTriggersConfigured == DOMAIN installed \cap DOMAIN listenerOptions
findListenerTriggers == DOMAIN installed

Finished(k) == lifecycle[k].pc \in {"done", "failed"}

\* lifecycle[k] after the step that ran, recorded in steps.
Stepped(k, step, pc) ==
  [lifecycle EXCEPT ![k].pc = pc, ![k].steps = Append(@, step)]

\* A disconnect() whose pool.end() waits for a connection that is still
\* checked out: the host may stop waiting for it.
Hanging(k) == lifecycle[k].pc = "ending"

\* The host calls connect(initializeQueue), disconnect() or teardown() once
\* its earlier call has settled (or hangs).
LifecycleCall ==
  /\ Len(lifecycle) < MaxLifecycle
  /\ \A k \in 1..Len(lifecycle) : Finished(k) \/ Hanging(k)
  /\ \E call \in {[op |-> "connect", initializeQueue |-> TRUE, pc |-> "gateway"],
                  [op |-> "connect", initializeQueue |-> FALSE, pc |-> "gateway"],
                  [op |-> "disconnect", initializeQueue |-> FALSE, pc |-> "stop"],
                  [op |-> "teardown", initializeQueue |-> FALSE, pc |-> "triggers"]} :
       lifecycle' = Append(lifecycle, [op |-> call.op, initializeQueue |-> call.initializeQueue,
                                       pc |-> call.pc, steps |-> <<>>,
                                       triggersTx |-> 0, queueTx |-> 0,
                                       triggerTables |-> {}])
  /\ UNCHANGED <<now, qvars, lvars, gvars, nvars, evars, listenerOptions, installed, queueTable, ddl,
                 installs, firings>>

\* connect(): await this.dbClient.connect().
ConnectGateway(k) ==
  /\ lifecycle[k].op = "connect" /\ lifecycle[k].pc = "gateway"
  /\ IF poolEnded
       THEN /\ lifecycle' = Stepped(k, "gateway", "failed")
            /\ UNCHANGED connectHeld
       ELSE /\ lifecycle' = Stepped(k, "gateway", "eventQueue")
            /\ connectHeld' = connectHeld + 1
  /\ UNCHANGED <<now, qvars, lvars, txs, gwCalls, nvars, evars, listenerOptions, installed, queueTable,
                 ddl, installs, firings>>

\* connect(): await this.eventQueue.connect(). A failure to start listening
\* is logged and the reconciliation timer is started anyway.
ConnectEventQueue(k) ==
  /\ lifecycle[k].op = "connect" /\ lifecycle[k].pc = "eventQueue"
  /\ \E listening \in BOOLEAN :
       notificationListenerClient' = (notificationListenerClient \/ listening)
  /\ reconciliationTimer' = TRUE
  /\ reconciliationArmedAt' = now
  /\ lifecycle' = Stepped(k, "eventQueue", "initialize")
  /\ UNCHANGED <<now, qvars, pulseIntervalMs, maxMissedPulses, lastHeartbeat, intervalTimer,
                 nextPulseAt, pulses, emitted, recoveries, poolEnded, leakedPulseTimers, starts,
                 gvars, nvars, listenerOptions, installed, queueTable, ddl, installs, firings,
                 eventQueueOptions, reconciliationIntervalMs, reconciliationFirings, routed,
                 cvars, ivars>>

\* connect(): the initializeQueue argument. The variant ignores it.
InitializesQueueAlways(k) == TRUE
InitializesQueue(k) == lifecycle[k].initializeQueue

\* connect(): if (initializeQueue) await this.eventQueue.initialize(), one
\* transaction that creates the queue table if it is missing.
ConnectInitialize(k) ==
  /\ lifecycle[k].op = "connect" /\ lifecycle[k].pc = "initialize"
  /\ IF InitializesQueue(k)
       THEN IF validate(create(queueTable, queueColumns))
              THEN /\ queueTable' = TRUE
                   /\ queueColumns' = create(queueTable, queueColumns)
                   /\ queueTrigger' = TRUE
                   /\ ddl' = Append(ddl, {[stmt |-> "create_queue", tableName |-> "event_queue"]})
                   /\ lifecycle' = Stepped(k, "initialize", "listeners")
              ELSE /\ lifecycle' = Stepped(k, "initialize", "failed")
                   /\ UNCHANGED <<queueTable, queueColumns, queueTrigger, ddl>>
       ELSE /\ lifecycle' = [lifecycle EXCEPT ![k].pc = "listeners"]
            /\ UNCHANGED <<queueTable, queueColumns, queueTrigger, ddl>>
  /\ UNCHANGED <<now, qvars, lvars, gvars, nvars, eventQueueOptions, reconciliationIntervalMs,
                 reconciliationArmedAt, reconciliationFirings, routed, cvars, initializes,
                 listenerOptions, installed, installs, firings>>

\* connect(): await this.createListeners(), one transaction that installs the
\* trigger of every configured table; a call that fails rolls all of it back.
ConnectCreateListeners(k) ==
  /\ lifecycle[k].op = "connect" /\ lifecycle[k].pc = "listeners"
  /\ LET outcomeOf(tb) == createListenerTrigger(tb, listenerOptions[tb].operations,
                                                listenerOptions[tb].recordColumns)
     IN IF \A tb \in tableListenerNames : outcomeOf(tb) = "created"
          THEN /\ installed' =
                    [tb \in DOMAIN installed \cup tableListenerNames |->
                       IF tb \in tableListenerNames
                         THEN [operations |-> listenerOptions[tb].operations,
                               keepColumns |-> listenerOptions[tb].recordColumns]
                         ELSE installed[tb]]
               /\ ddl' = Append(ddl, { [stmt |-> "create_trigger", tableName |-> tb] :
                                       tb \in tableListenerNames })
               /\ lifecycle' = [Stepped(k, "listeners", "start")
                                  EXCEPT ![k].triggerTables = DOMAIN installed \cup tableListenerNames]
          ELSE /\ lifecycle' = Stepped(k, "listeners", "failed")
               /\ UNCHANGED <<installed, ddl>>
  /\ UNCHANGED <<now, qvars, lvars, gvars, nvars, evars, listenerOptions, queueTable, installs, firings>>

\* connect(): this.livenessChecker.start().
ConnectStart(k) ==
  /\ lifecycle[k].op = "connect" /\ lifecycle[k].pc = "start"
  /\ lastHeartbeat' = now
  /\ leakedPulseTimers' = leakedPulseTimers + (IF intervalTimer THEN 1 ELSE 0)
  /\ intervalTimer' = TRUE
  /\ nextPulseAt' = now + pulseIntervalMs
  /\ lifecycle' = Stepped(k, "start", "done")
  /\ UNCHANGED <<now, qvars, notificationListenerClient, reconciliationTimer, pulseIntervalMs,
                 maxMissedPulses, pulses, emitted, recoveries, poolEnded, starts,
                 gvars, nvars, evars, listenerOptions, installed, queueTable, ddl, installs, firings>>

\* teardown(): await this.dbClient.teardown(), one transaction that drops the
\* trigger and the trigger function of every table findListenerTriggers() found.
TeardownTriggers(k) ==
  /\ lifecycle[k].op = "teardown" /\ lifecycle[k].pc = "triggers"
  /\ IF poolEnded
       THEN /\ lifecycle' = Stepped(k, "triggers", "failed")
            /\ UNCHANGED <<installed, ddl>>
       ELSE LET existingTriggers == findListenerTriggers
            IN /\ installed' = [tb \in DOMAIN installed \ existingTriggers |-> installed[tb]]
               /\ ddl' = Append(ddl, { [stmt |-> "drop_trigger", tableName |-> tb] :
                                       tb \in existingTriggers })
               /\ lifecycle' = [Stepped(k, "triggers", "eventQueue")
                                  EXCEPT ![k].triggersTx = Len(ddl) + 1]
  /\ UNCHANGED <<now, qvars, lvars, gvars, nvars, evars, listenerOptions, queueTable, installs, firings>>

\* teardown(): this.eventQueue.teardown() begins with disconnect():
\* clearInterval, then stopListening(), which throws when no listener
\* connection is held.
TeardownEventQueueDisconnect(k) ==
  /\ lifecycle[k].op = "teardown" /\ lifecycle[k].pc = "eventQueue"
  /\ reconciliationTimer' = FALSE
  /\ notificationListenerClient' = FALSE
  /\ lifecycle' = Stepped(k, "eventQueue",
                          IF notificationListenerClient THEN "grace" ELSE "failed")
  /\ UNCHANGED <<now, qvars, pulseIntervalMs, maxMissedPulses, lastHeartbeat, intervalTimer,
                 nextPulseAt, pulses, emitted, recoveries, poolEnded, leakedPulseTimers, starts,
                 gvars, nvars, evars, listenerOptions, installed, queueTable, ddl, installs, firings>>

\* teardown(): after the grace period, this.dbClient.transaction(drop).
TeardownDropQueue(k) ==
  /\ lifecycle[k].op = "teardown" /\ lifecycle[k].pc = "grace"
  /\ IF poolEnded
       THEN /\ lifecycle' = Stepped(k, "queue", "failed")
            /\ UNCHANGED <<queueTable, queueColumns, queueTrigger, ddl>>
       ELSE /\ queueTable' = FALSE
            /\ queueColumns' = <<>>
            /\ queueTrigger' = FALSE
            /\ ddl' = Append(ddl, {[stmt |-> "drop_queue", tableName |-> "event_queue"]})
            /\ lifecycle' = [Stepped(k, "queue", "done") EXCEPT ![k].queueTx = Len(ddl) + 1]
  /\ UNCHANGED <<now, qvars, lvars, gvars, nvars, eventQueueOptions, reconciliationIntervalMs,
                 reconciliationArmedAt, reconciliationFirings, routed, cvars, initializes,
                 listenerOptions, installed, installs, firings>>

\* disconnect(): this.livenessChecker.stop().
DisconnectStop(k) ==
  /\ lifecycle[k].op = "disconnect" /\ lifecycle[k].pc = "stop"
  /\ intervalTimer' = FALSE
  /\ lifecycle' = Stepped(k, "stop", "eventQueue")
  /\ UNCHANGED <<now, qvars, notificationListenerClient, reconciliationTimer, pulseIntervalMs,
                 maxMissedPulses, lastHeartbeat, nextPulseAt, pulses, emitted, recoveries,
                 poolEnded, leakedPulseTimers, starts,
                 gvars, nvars, evars, listenerOptions, installed, queueTable, ddl, installs, firings>>

\* disconnect(): await this.eventQueue.disconnect(gracePeriod): clearInterval,
\* then stopListening(), which throws when no listener connection is held,
\* then the wait for the grace period.
DisconnectEventQueue(k) ==
  /\ lifecycle[k].op = "disconnect" /\ lifecycle[k].pc = "eventQueue"
  /\ reconciliationTimer' = FALSE
  /\ notificationListenerClient' = FALSE
  /\ lifecycle' = Stepped(k, "eventQueue",
                          IF notificationListenerClient THEN "grace" ELSE "failed")
  /\ UNCHANGED <<now, qvars, pulseIntervalMs, maxMissedPulses, lastHeartbeat, intervalTimer,
                 nextPulseAt, pulses, emitted, recoveries, poolEnded, leakedPulseTimers, starts,
                 gvars, nvars, evars, listenerOptions, installed, queueTable, ddl, installs, firings>>

\* disconnect(): await this.dbClient.disconnect(), that is pool.end(): it
\* rejects on a pool already ended, and resolves only once no connection is
\* checked out.
DisconnectGateway(k) ==
  /\ lifecycle[k].op = "disconnect" /\ lifecycle[k].pc = "grace"
  /\ IF poolEnded
       THEN lifecycle' = Stepped(k, "gateway", "failed")
       ELSE lifecycle' = Stepped(k, "gateway", IF Borrowed = 0 THEN "done" ELSE "ending")
  /\ poolEnded' = TRUE
  /\ UNCHANGED <<now, qvars, notificationListenerClient, reconciliationTimer, pulseIntervalMs,
                 maxMissedPulses, lastHeartbeat, intervalTimer, nextPulseAt, pulses, emitted,
                 recoveries, leakedPulseTimers, starts,
                 gvars, nvars, evars, listenerOptions, installed, queueTable, ddl, installs, firings>>

\* ------------------------------------------------------------------ Init
\* The queue and the liveness checker after new Horton(options), connect() and
\* the host's on() calls.
CoreInitWith(missed, connected) ==
  /\ now = 0
  /\ rows = <<>>
  /\ queue = {}
  /\ channel = {}
  /\ lost = {}
  /\ tasks = <<>>
  /\ reconciling = FALSE
  /\ reconLocked = {}
  /\ listeners \in ListenerConfigs
  /\ notificationListenerClient = connected
  /\ reconciliationTimer = connected
  /\ pulseIntervalMs = 1
  /\ maxMissedPulses = missed
  /\ lastHeartbeat = 0
  /\ intervalTimer = connected
  /\ nextPulseAt = 1
  /\ pulses = <<>>
  /\ emitted = <<>>
  /\ recoveries = <<>>
  /\ poolEnded = FALSE
  /\ leakedPulseTimers = 0
  /\ starts = 0
  /\ eventQueueOptions = Undefined
  /\ reconciliationIntervalMs = EventQueueConstructor(eventQueueOptions)
  /\ reconciliationArmedAt = 0
  /\ reconciliationFirings = <<>>
  /\ routed = <<>>
  /\ queueCalls = <<>>
  /\ timerHandle = IF reconciliationTimer THEN 1 ELSE 0
  /\ liveTimers = IF reconciliationTimer THEN {1} ELSE {}
  /\ listenerConnections = IF notificationListenerClient THEN 1 ELSE 0

CoreInit == CoreInitWith(1, TRUE)

\* The default of options.prefix.
DefaultPrefix == <<"h", "o", "r", "t", "o", "n", "-", "m", "e", "t", "a">>

\* The gateway after Horton.connect(): dbClient.connect() took one connection.
GatewayConnected == connectHeld = 1 /\ txs = <<>> /\ gwCalls = <<>>

NamingDefault == prefix = DefaultPrefix /\ named = <<>>

\* The schema after Horton.connect() with the configuration of tableListeners.
SchemaConnected ==
  /\ listenerOptions = [t \in {"t"} |-> [operations |-> {"INSERT", "UPDATE"},
                                          recordColumns |-> Absent]]
  /\ installed = [t \in {"t"} |-> [operations |-> {"INSERT", "UPDATE"},
                                    keepColumns |-> Absent]]
  /\ queueTable = TRUE
  /\ QueueTableAsCreated
  /\ ddl = <<>>
  /\ installs = <<>>
  /\ firings = <<>>
  /\ lifecycle = <<>>

\* The state after new Horton(options), connect() and the host's on() calls.
Init == CoreInit /\ GatewayConnected /\ NamingDefault /\ SchemaConnected

\* Event delivery: watched writes, notifications, reconciliation and dequeues,
\* in the time before the first liveness pulse comes due.
Next ==
  \/ InsertRow
  \/ ReceiveNotification
  \/ LoseNotification
  \/ Reconcile
  \/ ReconcileCommit
  \/ \E i \in 1..Len(tasks) : DequeueSelect(i)
  \/ \E i \in 1..Len(tasks) : DequeueCallback(i)
  \/ \E i \in 1..Len(tasks) : DequeueDelete(i)
  \/ \E i \in 1..Len(tasks) : DequeueCommit(i)
  \/ \E i \in 1..Len(tasks) : DequeueRollback(i)

Spec == Init /\ [][Next]_vars

\* The liveness checker and the Dispatcher's reactions to it, with no write on
\* a watched table: the only queue rows are the pulses.
LiveInit == Init /\ listeners = [e \in {"t:INSERT", "t:UPDATE", "t:*"} |-> <<>>]

LiveNext ==
  \/ Tick
  \/ PulseFire
  \/ \E p \in 1..Len(pulses) : PulseEnqueue(p)
  \/ \E p \in 1..Len(pulses) : PulseEmit(p)
  \/ \E k \in 1..Len(recoveries) : RecoveryFinish(k)
  \/ ReceiveNotification
  \/ LoseNotification
  \/ Reconcile
  \/ ReconcileCommit
  \/ \E i \in 1..Len(tasks) : DequeueSelect(i)
  \/ \E i \in 1..Len(tasks) : DequeueCallback(i)
  \/ \E i \in 1..Len(tasks) : DequeueDelete(i)
  \/ \E i \in 1..Len(tasks) : DequeueCommit(i)

LiveSpec == LiveInit /\ [][LiveNext]_vars

\* The liveness checker with maxMissedPulses = 2, so that a heartbeat one
\* pulse interval old is within the healthy threshold.
HealthyInit ==
  /\ CoreInitWith(2, TRUE) /\ listeners = [e \in {"t:INSERT", "t:UPDATE", "t:*"} |-> <<>>]
  /\ GatewayConnected /\ NamingDefault /\ SchemaConnected

HealthySpec == HealthyInit /\ [][LiveNext]_vars

\* dequeue() called directly, for rows that exist, that were deleted and
\* that never existed.
DequeueNext ==
  \/ InsertRow
  \/ DequeueCall
  \/ \E i \in 1..Len(tasks) : DequeueSelect(i)
  \/ \E i \in 1..Len(tasks) : DequeueCallback(i)
  \/ \E i \in 1..Len(tasks) : DequeueDelete(i)
  \/ \E i \in 1..Len(tasks) : DequeueCommit(i)
  \/ \E i \in 1..Len(tasks) : DequeueRollback(i)

DequeueSpec == Init /\ [][DequeueNext]_vars

\* The routing of notifications: rows queued through queue(), messages with
\* any payload on the channel and reconciliation passes.
RoutingNext ==
  \/ QueueCall
  \/ ReceivePayload
  \/ Reconcile
  \/ ReconcileCommit

RoutingSpec == Init /\ [][RoutingNext]_vars

\* Reconciliation passes next to dequeues: rows queued through queue() with
\* the caller's queuedAt, their notifications received or lost.
ReconcileNext ==
  \/ QueueCall
  \/ ReceiveNotification
  \/ LoseNotification
  \/ Reconcile
  \/ ReconcileCommit
  \/ \E i \in 1..Len(tasks) : DequeueSelect(i)
  \/ \E i \in 1..Len(tasks) : DequeueCallback(i)
  \/ \E i \in 1..Len(tasks) : DequeueDelete(i)
  \/ \E i \in 1..Len(tasks) : DequeueCommit(i)
  \/ \E i \in 1..Len(tasks) : DequeueRollback(i)

ReconcileSpec == Init /\ [][ReconcileNext]_vars

\* The scan limit scaled to the model's queue table, which holds MaxRows rows
\* where the program's holds thousands: one row fewer than the table can hold.
ScanLimit == MaxRows - 1

\* Reconciliation on a queue that can hold more rows than one scan returns:
\* rows of any (tableName, operation) queued through queue(), their
\* notifications received or lost, passes and dequeues.
StarvationNext ==
  \/ QueueCall
  \/ ReceiveNotification
  \/ LoseNotification
  \/ ReconcileUpTo(ScanLimit)
  \/ ReconcileCommit
  \/ \E i \in 1..Len(tasks) : DequeueSelect(i)
  \/ \E i \in 1..Len(tasks) : DequeueCallback(i)
  \/ \E i \in 1..Len(tasks) : DequeueDelete(i)
  \/ \E i \in 1..Len(tasks) : DequeueCommit(i)
  \/ \E i \in 1..Len(tasks) : DequeueRollback(i)

StarvationSpec == Init /\ [][StarvationNext]_vars

\* The gateway on its own, after new DatabaseClient(options): connect(),
\* disconnect() and transaction() calls in any order.
GatewayInit ==
  /\ CoreInit /\ listeners = [e \in {"t:INSERT", "t:UPDATE", "t:*"} |-> <<>>]
  /\ connectHeld = 0 /\ txs = <<>> /\ gwCalls = <<>>
  /\ NamingDefault /\ SchemaConnected

GatewayNext ==
  \/ TxCall
  \/ \E i \in 1..Len(txs) : TxConnect(i)
  \/ \E i \in 1..Len(txs) : TxBegin(i)
  \/ \E i \in 1..Len(txs) : TxFn(i)
  \/ \E i \in 1..Len(txs) : TxCommit(i)
  \/ \E i \in 1..Len(txs) : TxRollback(i)
  \/ \E i \in 1..Len(txs) : TxRelease(i)
  \/ GwConnect
  \/ GwDisconnect
  \/ \E k \in 1..Len(gwCalls) : GwEndResolve(k)

GatewaySpec == GatewayInit /\ [][GatewayNext]_vars

\* prefixName() on a DatabaseClient whose constructor accepted the prefix.
NamingInit ==
  /\ CoreInit /\ listeners = [e \in {"t:INSERT", "t:UPDATE", "t:*"} |-> <<>>]
  /\ GatewayConnected /\ SchemaConnected
  /\ prefix \in { p \in StringsUpTo(MaxPrefixLen) : validatePostgresString(p) }
  /\ named = <<>>

NamingNext == PrefixNameCall

NamingSpec == NamingInit /\ [][NamingNext]_vars

\* Listener triggers on their own: a database whose queue table exists and
\* whose source tables carry no trigger yet; triggers are installed and the
\* host writes to the source tables.
TriggerInit ==
  /\ CoreInit /\ listeners = [e \in {"t:INSERT", "t:UPDATE", "t:*"} |-> <<>>]
  /\ GatewayConnected /\ NamingDefault
  /\ listenerOptions = <<>>
  /\ installed = <<>>
  /\ queueTable = TRUE
  /\ QueueTableAsCreated
  /\ ddl = <<>> /\ installs = <<>> /\ firings = <<>> /\ lifecycle = <<>>

TriggerNext ==
  \/ CreateListenerTriggerCall
  \/ SourceWrite

TriggerSpec == TriggerInit /\ [][TriggerNext]_vars

\* options.tableListeners of the observed hosts.
ListenerOptionChoices ==
  { [tb \in {"t"} |-> [operations |-> {"INSERT", "UPDATE"}, recordColumns |-> Absent]],
    [tb \in {"t", "u"} |-> [operations |-> IF tb = "t" THEN {"INSERT"} ELSE {},
                            recordColumns |-> Absent]],
    [tb \in {"t", "u"} |-> [operations |-> {"DELETE"},
                            recordColumns |-> KeepColumns(<<"name">>)]],
    [tb \in {"u"} |-> [operations |-> {"TRUNCATE"}, recordColumns |-> Absent]] }

\* options.eventQueueOptions of the observed hosts.
FrequencyChoices == {2, 5000}
EventQueueOptionChoices ==
  {Undefined, OptionsObject(FALSE, 0)} \cup { OptionsObject(TRUE, ms) : ms \in FrequencyChoices }

\* The listener triggers an earlier run may have left in the database.
LeftoverChoices ==
  { <<>>,
    [tb \in {"u"} |-> [operations |-> {"INSERT"}, keepColumns |-> Absent]],
    [tb \in {"t"} |-> [operations |-> {"DELETE"}, keepColumns |-> Absent]] }

\* The state after new Horton(options): nothing is connected, no timer runs,
\* and the database holds whatever an earlier run left.
SchemaInit ==
  /\ now = 0
  /\ rows = <<>> /\ queue = {} /\ channel = {} /\ lost = {} /\ tasks = <<>>
  /\ reconciling = FALSE /\ reconLocked = {}
  /\ listeners = [e \in {"t:INSERT", "t:UPDATE", "t:*"} |-> <<>>]
  /\ notificationListenerClient = FALSE
  /\ reconciliationTimer = FALSE
  /\ pulseIntervalMs = 1 /\ maxMissedPulses = 1
  /\ lastHeartbeat = 0
  /\ intervalTimer = FALSE
  /\ nextPulseAt = 0
  /\ pulses = <<>> /\ emitted = <<>> /\ recoveries = <<>>
  /\ poolEnded = FALSE
  /\ leakedPulseTimers = 0 /\ starts = 0
  /\ connectHeld = 0 /\ txs = <<>> /\ gwCalls = <<>>
  /\ NamingDefault
  /\ listenerOptions \in ListenerOptionChoices
  /\ installed \in LeftoverChoices
  /\ queueTable \in BOOLEAN
  /\ QueueTableAsCreated
  /\ ddl = <<>> /\ installs = <<>> /\ firings = <<>> /\ lifecycle = <<>>
  /\ eventQueueOptions \in EventQueueOptionChoices
  /\ reconciliationIntervalMs = EventQueueConstructor(eventQueueOptions)
  /\ reconciliationArmedAt = 0
  /\ reconciliationFirings = <<>>
  /\ routed = <<>>
  /\ queueCalls = <<>>
  /\ timerHandle = IF reconciliationTimer THEN 1 ELSE 0
  /\ liveTimers = IF reconciliationTimer THEN {1} ELSE {}
  /\ listenerConnections = IF notificationListenerClient THEN 1 ELSE 0

SchemaNext ==
  \/ LifecycleCall
  \/ \E k \in 1..Len(lifecycle) : ConnectGateway(k)
  \/ \E k \in 1..Len(lifecycle) : ConnectEventQueue(k)
  \/ \E k \in 1..Len(lifecycle) : ConnectInitialize(k)
  \/ \E k \in 1..Len(lifecycle) : ConnectCreateListeners(k)
  \/ \E k \in 1..Len(lifecycle) : ConnectStart(k)
  \/ \E k \in 1..Len(lifecycle) : TeardownTriggers(k)
  \/ \E k \in 1..Len(lifecycle) : TeardownEventQueueDisconnect(k)
  \/ \E k \in 1..Len(lifecycle) : TeardownDropQueue(k)
  \/ \E k \in 1..Len(lifecycle) : DisconnectStop(k)
  \/ \E k \in 1..Len(lifecycle) : DisconnectEventQueue(k)
  \/ \E k \in 1..Len(lifecycle) : DisconnectGateway(k)
  \/ ReconciliationTimerFire

SchemaSpec == SchemaInit /\ [][SchemaNext]_vars

\* The EventQueue on its own, after new EventQueue(dbClient, ...): calls of
\* connect(), disconnect() and reconnect(), which may overlap.
QueueLifecycleInit ==
  /\ SchemaInit
  /\ listenerOptions = [tb \in {"t"} |-> [operations |-> {"INSERT", "UPDATE"},
                                           recordColumns |-> Absent]]
  /\ installed = <<>>
  /\ queueTable
  /\ eventQueueOptions = Undefined

QueueLifecycleNext ==
  \/ QueueLifecycleCall
  \/ \E k \in 1..Len(queueCalls) : QueueGraceOver(k)
  \/ \E k \in 1..Len(queueCalls) : QueueListenSettled(k)

QueueLifecycleSpec == QueueLifecycleInit /\ [][QueueLifecycleNext]_vars

\* The two timers and their owners' calls on a connected instance: connect(),
\* disconnect() and reconnect() of the EventQueue, start() and stop() of the
\* LivenessChecker, in any order.
TimerNext ==
  \/ (Len(queueCalls) < MaxTimerCalls /\ QueueLifecycleCall)
  \/ \E k \in 1..Len(queueCalls) : QueueGraceOver(k)
  \/ \E k \in 1..Len(queueCalls) : QueueListenSettled(k)
  \/ Start
  \/ Stop

TimerSpec == LiveInit /\ [][TimerNext]_vars

\* An instance whose database holds the schema already and whose gateway is
\* connected, before EventQueue.connect(): the call, whose startListening()
\* may fail, and then watched writes, notifications, reconciliation and
\* dequeues.
AbsorbInit ==
  CoreInitWith(1, FALSE) /\ GatewayConnected /\ NamingDefault /\ SchemaConnected

AbsorbNext ==
  \/ (Len(queueCalls) < MaxAbsorbCalls /\ QueueLifecycleCall)
  \/ \E k \in 1..Len(queueCalls) : QueueListenSettled(k)
  \/ InsertRow
  \/ ReceiveNotification
  \/ Reconcile
  \/ ReconcileCommit
  \/ \E i \in 1..Len(tasks) : DequeueSelect(i)
  \/ \E i \in 1..Len(tasks) : DequeueCallback(i)
  \/ \E i \in 1..Len(tasks) : DequeueDelete(i)
  \/ \E i \in 1..Len(tasks) : DequeueCommit(i)
  \/ \E i \in 1..Len(tasks) : DequeueRollback(i)

AbsorbSpec == AbsorbInit /\ [][AbsorbNext]_vars

\* The queue tables an earlier run or someone else may have left: the expected
\* one, and the ones that differ from it in one column's name, type or
\* nullability, lack a column, have one more, or list the columns in another
\* order.
SignatureChoices ==
  {expectedColumns,
   [c \in 1..Len(expectedColumns) |-> expectedColumns[Len(expectedColumns) + 1 - c]],
   Append(expectedColumns, [name |-> "extra", type |-> "text", nullable |-> "YES"])}
  \cup { [expectedColumns EXCEPT ![i].name = "renamed"] : i \in 1..Len(expectedColumns) }
  \cup { [expectedColumns EXCEPT ![i].type = "bigint"] : i \in 1..Len(expectedColumns) }
  \cup { [expectedColumns EXCEPT ![i].nullable = IF @ = "NO" THEN "YES" ELSE "NO"] :
           i \in 1..Len(expectedColumns) }
  \cup { [c \in 1..(Len(expectedColumns) - 1) |->
            IF c < i THEN expectedColumns[c] ELSE expectedColumns[c + 1]] :
           i \in 1..Len(expectedColumns) }

\* The EventQueue's schema set-up on its own, on a database that may hold a
\* queue table already: initialize() and the drop of teardown().
InitializeInit ==
  /\ CoreInit /\ listeners = [e \in {"t:INSERT", "t:UPDATE", "t:*"} |-> <<>>]
  /\ GatewayConnected /\ NamingDefault
  /\ listenerOptions = <<>>
  /\ installed = <<>>
  /\ queueTable \in BOOLEAN
  /\ queueColumns \in (IF queueTable THEN SignatureChoices ELSE {<<>>})
  /\ queueTrigger \in (IF queueTable THEN BOOLEAN ELSE {FALSE})
  /\ initializes = <<>>
  /\ ddl = <<>> /\ installs = <<>> /\ firings = <<>> /\ lifecycle = <<>>

InitializeNext ==
  \/ InitializeCall
  \/ DropCall

InitializeSpec == InitializeInit /\ [][InitializeNext]_vars

\* The liveness checker's heartbeat bookkeeping under repeated start() calls:
\* pulses from the current and from replaced timers, and heartbeats received
\* through push notifications in any order.
BeatNext ==
  \/ Tick
  \/ Start
  \/ PulseFire
  \/ LeakedPulseFire
  \/ \E p \in 1..Len(pulses) : PulseEnqueue(p)
  \/ \E p \in 1..Len(pulses) : PulseEmit(p)
  \/ \E k \in 1..Len(recoveries) : RecoveryFinish(k)
  \/ ReceiveNotification
  \/ \E i \in 1..Len(tasks) : DequeueSelect(i)
  \/ \E i \in 1..Len(tasks) : DequeueCallback(i)
  \/ \E i \in 1..Len(tasks) : DequeueDelete(i)
  \/ \E i \in 1..Len(tasks) : DequeueCommit(i)

BeatSpec == LiveInit /\ [][BeatNext]_vars

\* ------------------------------------------------------------- properties
TaskIds == 1..Len(tasks)
TasksOf(r) == { i \in TaskIds : tasks[i].rowId = r }
CallbackInvoked(i) == tasks[i].settled # "pending"
Committed(i) == tasks[i].pc = "done" /\ tasks[i].result = "resolved" /\ tasks[i].deleted
RolledBack(i) ==
  tasks[i].pc = "done" /\ tasks[i].result = "rejected" /\ tasks[i].settled = "rejected"
FailedCalls(i) == { k \in 1..Len(tasks[i].calls) : tasks[i].calls[k].outcome # "ok" }
CallsOf(i, h, e) ==
  { k \in 1..Len(tasks[i].calls) : tasks[i].calls[k].handler = h /\ tasks[i].calls[k].event = e }
ListenersOf(e) == IF e \in DOMAIN listeners THEN listeners[e] ELSE <<>>

InvocationsFor(r, h) ==
  { <<i, k>> \in TaskIds \X (1..(2 * Cardinality(Handlers))) :
      /\ tasks[i].rowId = r
      /\ k <= Len(tasks[i].calls)
      /\ tasks[i].calls[k].handler = h }

\* C4 as claimed: for a queue row whose push notification was lost, the user
\* handler fires exactly once (never a second time), and the dequeue in which
\* it fired removes the row.
C4_LostRowHandlerFiresOnce ==
  \A r \in lost :
    /\ \A h \in Handlers : Cardinality(InvocationsFor(r, h)) <= 1
    /\ \A i \in TasksOf(r) :
         (tasks[i].pc = "done" /\ tasks[i].calls # <<>>) => r \notin queue

\* C5 as claimed: when a user handler fails, by throwing synchronously or by
\* rejecting, emitSync swallows the failure, the dequeue commits and the row is
\* removed.
C5_HandlerFaultSwallowed ==
  \A i \in TaskIds :
    (tasks[i].handler = "dispatcher" /\ FailedCalls(i) # {}) =>
      /\ tasks[i].settled = "resolved"
      /\ tasks[i].pc = "done" => (Committed(i) /\ tasks[i].rowId \notin queue)

C7_WildcardFanOut ==
  \A i \in TaskIds :
    (tasks[i].handler = "dispatcher" /\ (tasks[i].pc \in {"delete", "commit"} \/ Committed(i))) =>
      LET row == rows[tasks[i].rowId]
          es == {row.tableName \o ":" \o row.operation, row.tableName \o ":*"}
      IN /\ \A e \in es : \A n \in 1..Len(ListenersOf(e)) :
              Cardinality(CallsOf(i, ListenersOf(e)[n], e)) = 1
         /\ \A k \in 1..Len(tasks[i].calls) :
              /\ tasks[i].calls[k].payload = row
              /\ tasks[i].calls[k].event \in es
              /\ \E n \in 1..Len(ListenersOf(tasks[i].calls[k].event)) :
                   ListenersOf(tasks[i].calls[k].event)[n] = tasks[i].calls[k].handler

\* C7 witness: a committed dequeue that invoked two operation handlers and a
\* wildcard handler.
C7_Witness ==
  \E i \in TaskIds :
    /\ Committed(i)
    /\ \E k, m \in 1..Len(tasks[i].calls) :
         /\ tasks[i].calls[k].event = "t:*"
         /\ tasks[i].calls[m].event = "t:INSERT"
    /\ Len(tasks[i].calls) = 3

\* The status table of the liveness checker, by elapsed = now - lastHeartbeatAt.
ClaimedStatus(elapsed, interval, missed) ==
  IF elapsed <= interval * missed THEN "healthy"
  ELSE IF elapsed <= interval * missed * 3 THEN "unhealthy"
  ELSE "dead"

\* C8 as claimed: the status computed after a pulse is 'healthy' when
\* now - lastHeartbeatAt <= pulseIntervalMs * maxMissedPulses, 'unhealthy' up to
\* three times that, and 'dead' beyond.
C8_StatusFollowsTable ==
  \A k \in 1..Len(emitted) :
    emitted[k].event =
      ClaimedStatus(emitted[k].at - emitted[k].lastHeartbeatAt, pulseIntervalMs, maxMissedPulses)

\* C9 as claimed: every firing of the pulse timer, once its pulse() has run to
\* its end, has emitted exactly one status event, also when the enqueue failed.
C9_EveryPulseEmitsOneStatus ==
  \A p \in 1..Len(pulses) :
    pulses[p].pc \in {"done", "failed"} =>
      Cardinality({ k \in 1..Len(emitted) : emitted[k].pulse = p }) = 1

\* C10 as claimed: every 'unhealthy' event starts EventQueue.reconnect(), every
\* 'dead' event starts Dispatcher.disconnect(), 'healthy' starts neither; and
\* once a 'dead' event was emitted and every reaction has run to its end, the
\* liveness checker is stopped, the event queue is disconnected (no timer, no
\* listener connection) and the gateway is disconnected.
C10_ReactionsToLivenessEvents ==
  /\ \A k \in 1..Len(emitted) :
       Cardinality({ r \in 1..Len(recoveries) : recoveries[r].event = k }) =
         (IF emitted[k].event = "healthy" THEN 0 ELSE 1)
  /\ \A r \in 1..Len(recoveries) :
       recoveries[r].kind =
         (IF emitted[recoveries[r].event].event = "dead" THEN "disconnect" ELSE "reconnect")
  /\ ( /\ \E k \in 1..Len(emitted) : emitted[k].event = "dead"
       /\ \A r \in 1..Len(recoveries) : recoveries[r].pc \in {"done", "failed"} )
     => (~intervalTimer /\ ~reconciliationTimer /\ ~notificationListenerClient /\ poolEnded)

\* C11 as claimed: while no heartbeat has returned since the start at time 0,
\* a pulse emits 'healthy' only while the elapsed time is at most P*M,
\* 'unhealthy' only once it exceeds P*M, and 'dead' only once it exceeds 3*P*M
\* and after an 'unhealthy' was emitted; the first 'dead' starts a disconnect.
C11_DegradationOrder ==
  \A k \in 1..Len(emitted) :
    emitted[k].lastHeartbeatAt = 0 =>
      LET elapsed == emitted[k].at
          pm == pulseIntervalMs * maxMissedPulses
      IN /\ emitted[k].event = "healthy" => elapsed <= pm
         /\ emitted[k].event = "unhealthy" => elapsed > pm
         /\ emitted[k].event = "dead" =>
              /\ elapsed > 3 * pm
              /\ \E j \in 1..(k - 1) : emitted[j].event = "unhealthy"
              /\ \E r \in 1..Len(recoveries) :
                   recoveries[r].event = k /\ recoveries[r].kind = "disconnect"

\* The time at which the liveness callback of dequeue call i ran.
HeartbeatAt(i) == tasks[i].calls[1].payload.pulsedAt + tasks[i].calls[1].payload.pulseLag

\* C12: lastHeartbeat never decreases, whatever the order of start() calls,
\* pulses and received heartbeats.
C12_HeartbeatNeverDecreases == [][lastHeartbeat' >= lastHeartbeat]_vars

\* C12 witness: two heartbeats were received out of queuedAt order (the older
\* pulse's callback ran later than the newer one's) and lastHeartbeat is the
\* newer pulse's queuedAt.
C12_Witness ==
  \E i, j \in TaskIds :
    /\ tasks[i].handler = "liveness" /\ tasks[j].handler = "liveness"
    /\ tasks[i].calls # <<>> /\ tasks[j].calls # <<>>
    /\ rows[tasks[i].rowId].queuedAt < rows[tasks[j].rowId].queuedAt
    /\ HeartbeatAt(i) > HeartbeatAt(j)
    /\ lastHeartbeat = rows[tasks[j].rowId].queuedAt

\* C13 as claimed: a transaction() call that took a connection released it
\* exactly once; it resolved exactly when BEGIN, fn and COMMIT all succeeded,
\* and then it is committed; when one of them failed the transaction was rolled
\* back and the caller got that original failure.
C13_TransactionContract ==
  \A i \in 1..Len(txs) :
    txs[i].pc = "done" =>
      /\ txs[i].borrowedOne => txs[i].released = 1
      /\ (txs[i].result = "resolved") <=> (txs[i].failure = "none" /\ txs[i].committed)
      /\ txs[i].failure # "none" =>
           /\ txs[i].result = "rejected"
           /\ txs[i].thrown = txs[i].failure
           /\ txs[i].borrowedOne => txs[i].rolledBack

\* C14 as claimed: the second of two connect() calls, or of two disconnect()
\* calls, made in a row raises no error and leaves the pool as the first left
\* it (ended or not, and the connections held), and once a disconnect() has
\* completed no connection taken from the pool is still held.
C14_ConnectDisconnectIdempotent ==
  /\ \A k \in 1..(Len(gwCalls) - 1) :
       gwCalls[k].op = gwCalls[k + 1].op =>
         /\ gwCalls[k + 1].result # "rejected"
         /\ gwCalls[k + 1].ended = gwCalls[k].ended
         /\ gwCalls[k + 1].held = gwCalls[k].held
  /\ \A k \in 1..Len(gwCalls) :
       (gwCalls[k].op = "disconnect" /\ gwCalls[k].result # "rejected") => connectHeld = 0

\* ^[a-z_-]+$
MatchesName(str) == Len(str) >= 1 /\ \A k \in 1..Len(str) : str[k] \in {"a", "_", "-"}

\* ^[a-z_-]+(__[a-z_-]+)+$: a non-empty head, then "__", then a non-empty rest,
\* all of the class (the rest may hold further "__" groups).
MatchesManagedName(str) ==
  /\ \A k \in 1..Len(str) : str[k] \in {"a", "_", "-"}
  /\ \E h \in 1..(Len(str) - 3) : str[h + 1] = "_" /\ str[h + 2] = "_"

\* C15 as claimed: prefixName(logicalName) returns prefix, "__", logicalName
\* when the prefix and the logical name both match ^[a-z_-]+$ and throws
\* otherwise, and every name it returns matches ^[a-z_-]+(__[a-z_-]+)+$.
C15_PrefixNameContract ==
  \A k \in 1..Len(named) :
    /\ IF MatchesName(prefix) /\ MatchesName(named[k].name)
         THEN ~named[k].thrown /\ named[k].value = prefix \o <<"_", "_">> \o named[k].name
         ELSE named[k].thrown
    /\ ~named[k].thrown => MatchesManagedName(named[k].value)

\* C16 as claimed: installing a listener trigger fails with a configuration
\* fault, before any SQL is sent, exactly when the requested operation set
\* holds a value outside {INSERT, UPDATE, DELETE}; every subset of
\* {INSERT, UPDATE, DELETE} passes the validation.
C16_OperationValidation ==
  \A k \in 1..Len(installs) :
    installs[k].outcome = "thrown" <=> ~(installs[k].operations \subseteq RowOperations)

\* C17 as claimed: for every queue row a listener trigger writes, whatever the
\* recordColumns configuration: on INSERT previousRecord is null; on DELETE
\* currentRecord is derived from the old row image; and currentRecord is
\* never null, so the insert into the queue table never violates NOT NULL.
C17_TriggerRecords ==
  \A k \in 1..Len(firings) :
    LET f == firings[k] IN
    /\ f.operation = "INSERT" => f.previousRecord.null
    /\ f.operation = "DELETE" => f.currentRecord = createJsonFormatter(f.keepColumns, f.old)
    /\ ~f.currentRecord.null
    /\ f.outcome # "not_null_violation"

\* The side (OLD or NEW) that does not exist for an operation.
OldAbsent(operation) == operation = "INSERT"
NewAbsent(operation) == operation = "DELETE"

\* The record C18 describes for one side of a firing.
ClaimedProjection(keepColumns, row, absent) ==
  IF ~keepColumns.given
    THEN IF absent THEN JsonNull
         ELSE JsonObject([k \in 1..Len(JsonbKeyOrder) |->
                            <<JsonbKeyOrder[k], JsonValue(row[JsonbKeyOrder[k]])>>])
    ELSE IF keepColumns.columns = <<>>
      THEN JsonNull
      ELSE JsonObject([k \in 1..Len(keepColumns.columns) |->
                         <<keepColumns.columns[k], JsonValue(row[keepColumns.columns[k]])>>])

\* C18 as claimed: with no recordColumns each of previousRecord/currentRecord
\* is the entire OLD/NEW row, or null when that side is absent for the
\* operation; with an empty recordColumns both are null; with recordColumns
\* c1..cn each record of a side that exists has exactly the keys c1..cn, in
\* list order, with the source row's column values.
C18_ProjectionRule ==
  \A k \in 1..Len(firings) :
    LET f == firings[k]
        listed == f.keepColumns.given /\ f.keepColumns.columns # <<>>
    IN /\ (~listed \/ ~OldAbsent(f.operation)) =>
            f.previousRecord = ClaimedProjection(f.keepColumns, f.old, OldAbsent(f.operation))
       /\ (~listed \/ ~NewAbsent(f.operation)) =>
            f.currentRecord = ClaimedProjection(f.keepColumns, f.new, NewAbsent(f.operation))

\* The connect() calls that completed.
ConnectsDone == { k \in 1..Len(lifecycle) : lifecycle[k].op = "connect" /\ lifecycle[k].pc = "done" }

\* C19 as claimed: after connect() the source tables that carry a listener
\* trigger are exactly the configured tables with a non-empty operation set
\* (a trigger left by an earlier configuration on a table no longer
\* configured is gone), and a further connect() with the same configuration
\* leaves the same set.
C19_InstalledEqualsConfigured ==
  /\ \A k \in ConnectsDone : lifecycle[k].triggerTables = tableListenerNames
  /\ \A j, k \in ConnectsDone :
       (j < k /\ \A m \in (j + 1)..(k - 1) : lifecycle[m].op = "connect") =>
         lifecycle[k].triggerTables = lifecycle[j].triggerTables

\* The teardown() calls that completed.
TeardownsDone ==
  { k \in 1..Len(lifecycle) : lifecycle[k].op = "teardown" /\ lifecycle[k].pc = "done" }

\* C20: once teardown() has completed, and until the host calls connect()
\* again, no source table carries a listener trigger or trigger function of
\* the prefix and the queue table is gone; the triggers were dropped in one
\* transaction and the queue table in another one.
C20_TeardownDropsEverything ==
  \A k \in TeardownsDone :
    LET c == lifecycle[k] IN
    /\ c.triggersTx \in 1..Len(ddl) /\ c.queueTx \in 1..Len(ddl)
    /\ c.triggersTx # c.queueTx
    /\ \A s \in ddl[c.triggersTx] : s.stmt = "drop_trigger"
    /\ ddl[c.queueTx] = {[stmt |-> "drop_queue", tableName |-> "event_queue"]}
    /\ k = Len(lifecycle) => (DOMAIN installed = {} /\ ~queueTable)

\* A teardown() that completed as the last call, after a connect(), and whose
\* first transaction dropped triggers, one of them on a table that is not
\* configured any more.
C20_Witness ==
  \E k \in TeardownsDone :
    /\ k = Len(lifecycle)
    /\ \E j \in ConnectsDone : j < k
    /\ \E s \in ddl[lifecycle[k].triggersTx] : s.tableName \notin DOMAIN listenerOptions
    /\ \E s \in ddl[lifecycle[k].triggersTx] : s.tableName \in DOMAIN listenerOptions

\* Is s an initial part of t.
IsPrefix(s, t) == Len(s) <= Len(t) /\ \A i \in 1..Len(s) : s[i] = t[i]

\* The order C21 gives for connect(initializeQueue) and for disconnect().
ConnectOrder(initializeQueue) ==
  IF initializeQueue THEN <<"gateway", "eventQueue", "initialize", "listeners", "start">>
  ELSE <<"gateway", "eventQueue", "listeners", "start">>
DisconnectOrder == <<"stop", "eventQueue", "gateway">>

\* C21: the steps a connect(initializeQueue) call has performed are, in
\* order, gateway connect, event-queue connect, queue initialisation (only
\* when initializeQueue is true), listener-trigger installation, liveness
\* checker start, and a connect() that completed performed all of them and
\* left a trigger on every configured table; the steps of a disconnect() are,
\* in order, liveness-checker stop, event-queue disconnect, gateway
\* disconnect, all of them once the gateway disconnect was reached.
C21_LifecycleOrder ==
  \A k \in 1..Len(lifecycle) :
    LET c == lifecycle[k] IN
    /\ c.op = "connect" =>
         /\ IsPrefix(c.steps, ConnectOrder(c.initializeQueue))
         /\ c.pc = "done" =>
              /\ c.steps = ConnectOrder(c.initializeQueue)
              /\ tableListenerNames \subseteq c.triggerTables
    /\ c.op = "disconnect" =>
         /\ IsPrefix(c.steps, DisconnectOrder)
         /\ c.pc \in {"ending", "done"} => c.steps = DisconnectOrder

\* A connect(false) and a connect(true) completed and a later disconnect()
\* reached the gateway disconnect.
C21_Witness ==
  /\ \E k \in ConnectsDone : ~lifecycle[k].initializeQueue
  /\ \E k \in ConnectsDone : lifecycle[k].initializeQueue
  /\ \E k \in 1..Len(lifecycle) :
       lifecycle[k].op = "disconnect" /\ lifecycle[k].steps = DisconnectOrder

\* The period C22 gives: reconciliationFrequencyMs as supplied, 5000 ms
\* when the option is absent.
ClaimedPeriod(options) == IF options.given THEN options.ms ELSE 5000

\* C22 as claimed: the reconciliation timer started by EventQueue.connect()
\* fires with period eventQueueOptions.reconciliationFrequencyMs, and with
\* period 5000 ms when that option is absent.
C22_ReconciliationPeriod ==
  \A k \in 1..Len(reconciliationFirings) :
    reconciliationFirings[k].at - reconciliationFirings[k].armedAt
      = ClaimedPeriod(eventQueueOptions)

\* C23: at no point do two dequeue tasks for the same queue row both stand
\* between their successful SELECT ... FOR UPDATE and their commit or
\* rollback, so two callback invocations for one row never overlap.
C23_OneTaskPerRowAtATime ==
  \A i, j \in TaskIds :
    (i # j /\ tasks[i].rowId = tasks[j].rowId) =>
      ~(HoldsLock(tasks[i]) /\ HoldsLock(tasks[j]))

\* One dequeue task is inside its callback while a second dequeue for the
\* same row has begun and waits for the row.
C23_Witness ==
  \E i, j \in TaskIds :
    /\ i # j /\ tasks[i].rowId = tasks[j].rowId
    /\ tasks[i].pc = "callback"
    /\ tasks[j].pc = "begin"

\* C24: a dequeue(rowId, callback) whose row is not in the queue (it never
\* existed, or a committed dequeue deleted it) returns undefined at its
\* SELECT, without invoking the callback, and leaves the queue table as it is.
C24_AbsentRowReturnsUndefined ==
  [][\A i \in TaskIds :
       (tasks[i].pc = "begin" /\ tasks'[i].pc # "begin" /\ tasks[i].rowId \notin queue) =>
         /\ tasks'[i].pc = "done"
         /\ tasks'[i].result = "undefined"
         /\ tasks'[i].calls = <<>> /\ tasks'[i].settled = "pending"
         /\ ~tasks'[i].deleted
         /\ queue' = queue /\ rows' = rows]_vars

\* A dequeue call returned undefined without a callback for a row that a
\* committed dequeue had deleted.
C24_Witness ==
  \E i, j \in TaskIds :
       /\ i # j
       /\ tasks[i].rowId = tasks[j].rowId
       /\ Committed(i)
       /\ tasks[j].pc = "done" /\ tasks[j].result = "undefined" /\ tasks[j].calls = <<>>

\* How often handler h is subscribed to event e.
Subscriptions(h, e) ==
  Cardinality({ k \in 1..Len(ListenersOf(e)) : ListenersOf(e)[k] = h })

\* C25 as claimed: emitSync(event, payload) invokes every handler subscribed
\* to the event exactly once and resolves when all of them have completed; a
\* handler that throws synchronously or returns a rejected promise neither
\* keeps the remaining handlers from being invoked nor makes emitSync fail.
C25_EmitSyncIsolation ==
  \A i \in TaskIds :
    (tasks[i].handler = "dispatcher" /\ CallbackInvoked(i)) =>
      LET row == rows[tasks[i].rowId]
          events == {row.tableName \o ":" \o row.operation, row.tableName \o ":*"}
      IN /\ \A e \in events : \A h \in Handlers :
              Cardinality(CallsOf(i, h, e)) = Subscriptions(h, e)
         /\ tasks[i].settled = "resolved"

\* Is the string the decimal form of a row id.
IsRowId(str) == str \in {"1", "2", "3"}

\* C26: a payload '<rowId>:<tableName>:<operation>' produces exactly one
\* event carrying rowId, keyed 'queued:<tableName>:<operation>' for a trigger
\* operation on a table other than the internal pseudo-table and
\* 'internal:<operation>' for an internal operation on the internal
\* pseudo-table; a payload with a missing or empty field or an unrecognised
\* operation produces no event and starts nothing; and the reconciler routes
\* a row with the same rowId, tableName and operation to the same key.
C26_NotificationRouting ==
  \A k \in 1..Len(routed) :
    LET p == routed[k].payload
        events == routed[k].events
        three == Len(p) = 3 /\ IsRowId(p[1]) /\ p[2] # ""
    IN /\ (three /\ p[3] \in ETriggerOperation /\ p[2] # internalPseudoTableName) =>
            events = <<[event |-> "queued:" \o p[2] \o ":" \o p[3], rowId |-> NumberOf(p[1])]>>
       /\ (three /\ p[3] \in EInternalOperation /\ p[2] = internalPseudoTableName) =>
            events = <<[event |-> "internal:" \o p[3], rowId |-> NumberOf(p[1])]>>
       /\ (\/ Len(p) < 3
           \/ \E f \in 1..Min(3, Len(p)) : p[f] = ""
           \/ (Len(p) >= 3 /\ p[3] \notin ETriggerOperation \cup EInternalOperation)) =>
            events = <<>> /\ routed[k].started = 0
       /\ \A r \in RowIds :
            (three /\ NumberOf(p[1]) = r /\ p[2] = rows[r].tableName
                   /\ p[3] = rows[r].operation) =>
              events = EmittedFor(Notification(r))

\* The message of a queued row of table t was received and routed to the
\* key the reconciler uses for that row, and a dequeue was started for it.
C26_Witness ==
  \E k \in 1..Len(routed) : \E r \in RowIds :
    /\ routed[k].payload = <<"1", rows[r].tableName, rows[r].operation>>
    /\ r = 1
    /\ rows[r].tableName = "t"
    /\ Len(routed[k].events) = 1
    /\ routed[k].started = 1

\* C27: a reconciliation pass never inserts, deletes or modifies a queue
\* row: opening and closing its transaction leave the queue table as it is,
\* every row it locked is in the table with the same contents at every step
\* until the close, and the close releases every lock the pass took.
C27_ReconciliationFrame ==
  [][/\ (reconciling # reconciling') => (rows' = rows /\ queue' = queue)
     /\ (reconciling /\ reconciling') =>
          /\ reconLocked' = reconLocked
          /\ \A r \in reconLocked : r \in queue' /\ rows'[r] = rows[r]
     /\ (reconciling /\ ~reconciling') => reconLocked' = {}
     /\ ~reconciling => reconLocked = {}]_vars

\* A pass has closed: the row whose notification was lost is still in the
\* queue table, unlocked, and the dequeue the pass started for it has begun.
C27_Witness ==
  /\ ~reconciling
  /\ reconLocked = {}
  /\ \E i \in TaskIds :
       /\ tasks[i].rowId \in lost
       /\ tasks[i].rowId \in queue
       /\ ~Locked(tasks[i].rowId)
       /\ tasks[i].pc = "begin"

\* C28: a reconciliation pass takes its scan in one step whatever rows
\* dequeues hold locked, locks exactly the rows no dequeue transaction holds,
\* and starts dequeues only for rows it locked itself, in non-decreasing
\* queuedAt order.
C28_SkipLocked ==
  [][(~reconciling /\ reconciling') =>
       LET started == SubSeq(tasks', Len(tasks) + 1, Len(tasks'))
       IN /\ reconLocked' = { r \in queue : ~LockedByDequeue(r) }
          /\ \A k \in 1..Len(started) :
               /\ started[k].rowId \in reconLocked'
               /\ ~LockedByDequeue(started[k].rowId)
          /\ \A k \in 1..(Len(started) - 1) :
               rows[started[k].rowId].queuedAt <= rows[started[k + 1].rowId].queuedAt]_vars

\* A pass is open while a dequeue holds another row locked: the pass skipped
\* that row, locked the other one and started a dequeue for it.
C28_Witness ==
  /\ reconciling
  /\ \E r \in queue, q \in reconLocked :
       /\ LockedByDequeue(r)
       /\ r \notin reconLocked
       /\ rows[q].queuedAt < rows[r].queuedAt
       /\ \E i \in TaskIds : tasks[i].rowId = q /\ tasks[i].pc = "begin"

\* What the claim has a finished call do, step by step.
ClaimedConnectSteps == { <<l, "timer">> : l \in {"listening", "listen_failed"} }
ClaimedDisconnectSteps == <<"timer_cleared", "released", "waited">>

\* C29: connect() starts the listener connection and only then the
\* reconciliation timer; disconnect(gracePeriod) stops the timer, force-releases
\* the listener connection, then waits gracePeriod before completing;
\* reconnect(cooldown) is disconnect(cooldown) followed by connect(), after
\* which one listener connection and one reconciliation timer are active
\* (when the database let the listener connect).
C29_QueueLifecycle ==
  \A k \in 1..Len(queueCalls) :
    LET c == queueCalls[k]
    IN QueueCallFinished(k) =>
         CASE c.op = "connect" -> c.steps \in ClaimedConnectSteps
           [] c.op = "disconnect" ->
                c.steps = ClaimedDisconnectSteps /\ c.waited >= GracePeriod(c.gracePeriod)
           [] c.op = "reconnect" ->
                /\ c.steps \in { ClaimedDisconnectSteps \o t : t \in ClaimedConnectSteps }
                /\ c.waited >= GracePeriod(c.gracePeriod)
                /\ c.steps[4] = "listening" => (c.connections = 1 /\ c.timers = 1)

\* The signature as the claim compares it: the columns with their name, type
\* and nullability, whatever order the information schema lists them in.
Signature(columns) == { columns[c] : c \in 1..Len(columns) }
SignatureAsExpected(columns) ==
  Len(columns) = Len(expectedColumns) /\ Signature(columns) = Signature(expectedColumns)

\* C30: on a pre-existing queue table initialize() fails with 'Queue table
\* exists but is not valid', creating no trigger and leaving the table as it
\* was, whenever the table's columns differ from the expected list in a name,
\* a type or a nullability, and succeeds when they equal it.
C30_InitializeValidates ==
  \A k \in 1..Len(initializes) :
    LET c == initializes[k]
    IN c.existed =>
         IF SignatureAsExpected(c.before)
           THEN c.outcome = "resolved"
           ELSE /\ c.outcome = "Queue table exists but is not valid"
                /\ ~c.triggerCreated
                /\ c.after = c.before /\ c.triggerAfter = c.triggerBefore

\* C31: after any sequence of connect, reconnect, disconnect, start and stop
\* calls at most one reconciliation timer and at most one pulse timer are
\* active, and every active timer is the one its owner refers to.
C31_NoTimerLeaks ==
  /\ Cardinality(liveTimers) <= 1
  /\ liveTimers \subseteq {timerHandle}
  /\ leakedPulseTimers = 0

\* C32: a fault inside a timer callback (here a pulse whose enqueue fails) is
\* suppressed: no firing of the timer ends in an unhandled failure.
C32_TimerFaultsSuppressed ==
  \A p \in 1..Len(pulses) : IntervalCallback(PulsePromise(p)) = "none"

\* C33: a pulse that fires on time, when the heartbeat of every earlier pulse
\* has been received, emits 'healthy'.
C33_HealthyWhenHeartbeatsReturn ==
  \A k \in 1..Len(emitted) :
    LET e == emitted[k]
    IN ( /\ \A q \in 1..(e.pulse - 1) : pulses[q].queuedAt <= e.lastHeartbeatAt
         /\ e.at - e.lastHeartbeatAt <= pulseIntervalMs ) =>
       e.event = "healthy"

\* C34: every EventQueue disconnect() and reconnect() completes without
\* error, whatever the lifecycle state it is called in (never connected,
\* already disconnected, or an earlier reconnect() still in its cooldown),
\* and none releases a listener connection that is absent.
C34_OverlappingRecoveryIsSafe ==
  \A k \in 1..Len(queueCalls) :
    queueCalls[k].op \in {"disconnect", "reconnect"} =>
      /\ queueCalls[k].pc # "failed"
      /\ \A j \in 1..Len(queueCalls[k].steps) : queueCalls[k].steps[j] # "release_threw"

\* C35: once a Dispatcher.disconnect() has run to its end, no listener
\* connection is held and no reconciliation or pulse timer is active, in that
\* state and in every later one, also when an EventQueue.reconnect() was
\* pending when the disconnect() began.
C35_DisconnectIsFinal ==
  (\E r \in 1..Len(recoveries) :
     recoveries[r].kind = "disconnect" /\ recoveries[r].pc \in {"done", "failed"}) =>
    (~notificationListenerClient /\ ~reconciliationTimer /\ ~intervalTimer)

\* C36: a connect() whose startListening() failed still completes, and when
\* it does the reconciliation timer is set; and with no listener connection every
\* reconciliation pass starts, for every queue row no dequeue holds, the
\* dequeue of the handler subscribed to the row's (tableName, operation).
C36_ListenFailureAbsorbed ==
  [][/\ \A k \in 1..Len(queueCalls) :
          (queueCalls[k].op = "connect" /\ queueCalls[k].pc = "listen"
             /\ queueCalls'[k].pc # "listen") =>
            /\ queueCalls'[k].pc = "done"
            /\ queueCalls'[k].steps[Len(queueCalls'[k].steps)] = "timer"
            /\ reconciliationTimer'
     /\ (~reconciling /\ reconciling' /\ ~notificationListenerClient) =>
          \A r \in queue :
            ~LockedByDequeue(r) =>
              \E i \in (Len(tasks) + 1)..Len(tasks') :
                tasks'[i].rowId = r /\ tasks'[i].handler = "dispatcher"]_vars

\* connect() absorbed a failed startListening(); no listener connection was
\* ever held, and a queue row was handed to its handler and deleted by a
\* dequeue that a reconciliation pass started.
C36_Witness ==
  /\ Len(queueCalls) = 1
  /\ queueCalls[1].op = "connect"
  /\ queueCalls[1].steps = <<"listen_failed", "timer">>
  /\ ~notificationListenerClient
  /\ \E i \in TaskIds : Committed(i) /\ CallbackInvoked(i)

\* A queue row that no subscriber ever dequeues: emitting its notification
\* calls no handler.
NeverDequeued(q) == StartedBy(Notification(q)) = <<>>

\* C37: a reconciliation pass re-emits a queue row of a configured
\* (tableName, operation) whose push notification was lost, and that no
\* dequeue holds, also when the queue holds at least as many older rows that
\* no subscriber ever dequeues as the scan returns.
C37_NoStarvation ==
  [][(~reconciling /\ reconciling') =>
       \A r \in queue \cap lost :
         ( /\ ~NeverDequeued(r)
           /\ ~LockedByDequeue(r)
           /\ Cardinality({ q \in queue : NeverDequeued(q)
                                           /\ rows[q].queuedAt < rows[r].queuedAt }) >= ScanLimit )
         => \E i \in (Len(tasks) + 1)..Len(tasks') : tasks'[i].rowId = r]_vars

\* The teardown() calls that settled, completed or rejected, and whose first
\* transaction (the drop of the listener triggers) ran.
TeardownsSettled ==
  { k \in 1..Len(lifecycle) : /\ lifecycle[k].op = "teardown"
                              /\ lifecycle[k].pc \in {"done", "failed"}
                              /\ lifecycle[k].triggersTx # 0 }

\* C38: teardown() drops the queue table in every lifecycle state: also on an
\* instance whose event queue was never connected, or was already
\* disconnected, it completes without error, and once it has settled, and
\* until the host's next call, the queue table is gone.
C38_TeardownInEveryState ==
  \A k \in TeardownsSettled :
    /\ lifecycle[k].pc = "done"
    /\ lifecycle[k].queueTx \in 1..Len(ddl)
    /\ k = Len(lifecycle) => ~queueTable

\* Can the dequeue transaction of task j, which holds its row's lock, take
\* its next step.
HolderCanStep(j) ==
  ENABLED (DequeueCallback(j) \/ DequeueDelete(j) \/ DequeueCommit(j) \/ DequeueRollback(j))

\* C39: an open reconciliation pass can always commit, whatever the dequeues
\* it started are doing; and a dequeue that cannot take its SELECT waits only
\* for an open pass that holds its row, or for another dequeue that holds the
\* row and can itself step: a pass and a dequeue never wait on each other,
\* and once the pass has committed nothing but a running dequeue holds a
\* blocked dequeue back.
C39_NoMutualWait ==
  /\ reconciling => ENABLED ReconcileCommit
  /\ \A i \in TaskIds :
       (tasks[i].pc = "begin" /\ ~ENABLED DequeueSelect(i)) =>
         \/ reconciling /\ tasks[i].rowId \in reconLocked
         \/ \E j \in TaskIds \ {i} : /\ tasks[j].rowId = tasks[i].rowId
                                     /\ HoldsLock(tasks[j])
                                     /\ HolderCanStep(j)

\* A pass is open and holds a row locked; a dequeue for that row has begun
\* and cannot take its SELECT, and the pass can commit.
C39_Witness ==
  /\ reconciling
  /\ ENABLED ReconcileCommit
  /\ \E i \in TaskIds :
       /\ tasks[i].pc = "begin"
       /\ tasks[i].rowId \in reconLocked
       /\ ~ENABLED DequeueSelect(i)

====
